---- MODULE Spec2Model ----
(***************************************************************************)
(* Water-level sensor firmware: the ring-log store of storage.h and its   *)
(* backup/restore path of webserver.h, modelled over a LittleFS image.    *)
(*                                                                         *)
(* A file is a record [size, head, count, slots]: size is the byte length, *)
(* head/count are the two uint16 header fields (0 while the file is        *)
(* shorter than the header) and slots are the 16-byte records the bytes    *)
(* after the header make up, the last one possibly cut short (its missing  *)
(* fields read as 0).  All sizes in the model are multiples of 4 bytes,    *)
(* the width of every header pair and record field.                        *)
(*                                                                         *)
(* A float is a rational [n, d] in lowest terms with d > 0, and NAN is the *)
(* pair with d = 0.  Float arithmetic is carried out exactly: the rounding *)
(* of the 32-bit format is not modelled.                                   *)
(*                                                                         *)
(* The file system itself is taken to be reliable (open, read, write and   *)
(* remove succeed) except inside storageReplaceRingFile, whose code        *)
(* handles a failing rename, open and write explicitly.  A write after a   *)
(* seek past the end of a file extends the file with zero bytes.           *)
(***************************************************************************)
EXTENDS Integers, Sequences, FiniteSets, TLC

\* ---------------------------------------------------------------- bounds
MAX_REC        == 3   \* capacity of the hourly ring (2160 in the firmware)
MAX_RECENT_REC == 2   \* capacity of the recent ring (60 in the firmware)
MaxTs          == 2   \* latest time(nullptr) a measurement is stamped with
ExtraAppends   == 1   \* appends followed beyond the capacity of the larger ring
SENSOR_MAX_SAMPLES == 3  \* size of the sample buffer (30 in the firmware)
MaxCycles      == 2   \* measurement cycles followed after boot

\* ------------------------------------------------------------- constants
HDR_SIZE == 4         \* sizeof(HistHeader)
REC_SIZE == 16        \* sizeof(HistRecord)
FIELD_SIZE == 4       \* sizeof(uint32_t) = sizeof(float)

HIST_FILE        == "/hist.bin"
HIST_RECENT_FILE == "/hist_recent.bin"
HIST_TMP         == "/hist_hourly.upload.tmp"
HIST_RECENT_TMP  == "/hist_recent.upload.tmp"

\* ------------------------------------------------------------ floats
Abs(a) == IF a < 0 THEN -a ELSE a

RECURSIVE GCD(_, _)
GCD(a, b) == IF b = 0 THEN a ELSE GCD(b, a % b)

\* the float n/d, d > 0
Q(n, d) == LET g == GCD(Abs(n), d) IN [n |-> n \div g, d |-> d \div g]

QInt(i) == [n |-> i, d |-> 1]
Q0      == QInt(0)

\* the float NAN of an unavailable temperature, equal to no number
NaN    == [n |-> 0, d |-> 0]

\* numerators of a and b over their least common denominator
QOver(a, b) ==
  LET g == GCD(a.d, b.d)
  IN  [a |-> a.n * (b.d \div g), b |-> b.n * (a.d \div g),
       d |-> (a.d \div g) * b.d]

QAdd(a, b) == LET o == QOver(a, b) IN Q(o.a + o.b, o.d)
QSub(a, b) == LET o == QOver(a, b) IN Q(o.a - o.b, o.d)
QLt(a, b)  == LET o == QOver(a, b) IN o.a < o.b
QLe(a, b)  == LET o == QOver(a, b) IN o.a <= o.b

\* a * b, cancelling across before multiplying
QMul(a, b) ==
  LET g1 == GCD(Abs(a.n), b.d)
      g2 == GCD(Abs(b.n), a.d)
  IN  [n |-> (a.n \div g1) * (b.n \div g2), d |-> (a.d \div g2) * (b.d \div g1)]

\* a / b for b # 0
QDiv(a, b) ==
  QMul(a, IF b.n < 0 THEN [n |-> -b.d, d |-> -b.n] ELSE [n |-> b.d, d |-> b.n])

QMin(a, b) == IF QLt(b, a) THEN b ELSE a
QMax(a, b) == IF QLt(a, b) THEN b ELSE a

\* the value LittleFS holds for a path with no file (no size, not even 0)
Absent == [size |-> -1, head |-> 0, count |-> 0, slots |-> <<>>]

RingPaths == {HIST_FILE, HIST_RECENT_FILE}
TmpPaths  == {HIST_TMP, HIST_RECENT_TMP}
Paths     == RingPaths \cup TmpPaths

Min(a, b) == IF a < b THEN a ELSE b
Max(a, b) == IF a > b THEN a ELSE b

\* maxRec argument the firmware passes along with each ring path
MaxRecOf(path) == IF path = HIST_FILE THEN MAX_REC ELSE MAX_RECENT_REC

\* upload scratch file of each ring
TmpOf(path) == IF path = HIST_FILE THEN HIST_TMP ELSE HIST_RECENT_TMP

\* ------------------------------------------------------------ file layout
ExpectedSize(maxRec) == HDR_SIZE + maxRec * REC_SIZE

\* HistRecord blank = {0, 0, 0, NAN}
blank == [ts |-> 0, level |-> Q0, volume |-> Q0, temp_c |-> NaN]

\* a record made of zero bytes (gap left by a write past the end of a file)
ZeroRec == [ts |-> 0, level |-> Q0, volume |-> Q0, temp_c |-> Q0]

\* mutant: the pre-allocation loop runs once too often (i <= maxRec)
BlankFile_OneMore(maxRec) ==
  [size  |-> ExpectedSize(maxRec + 1),
   head  |-> 0,
   count |-> 0,
   slots |-> [i \in 1..(maxRec + 1) |-> blank]]

\* the blank file _storageInitRing creates: header {0,0} + maxRec blanks
BlankFile(maxRec) ==
  [size  |-> ExpectedSize(maxRec),
   head  |-> 0,
   count |-> 0,
   slots |-> [i \in 1..maxRec |-> blank]]

\* the file open(path, "w") leaves before anything is written
EmptyFile == [size |-> 0, head |-> 0, count |-> 0, slots |-> <<>>]

\* mutant: level and volume stored in each other's field
HistRecordOf_Swapped(s) ==
  [ts |-> s.timestamp, level |-> s.volume_liters,
   volume |-> s.level_pct, temp_c |-> s.temp_c]

\* HistRecord rec = { s.timestamp, s.level_pct, s.volume_liters, s.temp_c }
HistRecordOf(s) ==
  [ts |-> s.timestamp, level |-> s.level_pct,
   volume |-> s.volume_liters, temp_c |-> s.temp_c]

\* the validity test shared by init, validate, read and count:
\*   f.size() == sizeof(hdr) + maxRec*sizeof(rec) && f.read(hdr) == sizeof(hdr)
\*   && hdr.head < maxRec && hdr.count <= maxRec
RingFileOk(f, maxRec) ==
  /\ f # Absent
  /\ f.size = ExpectedSize(maxRec)
  /\ f.size >= HDR_SIZE
  /\ f.head < maxRec
  /\ f.count <= maxRec

\* hdr.head >= maxRec || hdr.count > maxRec  (the only test append makes)
HeaderOutOfRange(hdr, maxRec) == hdr.head >= maxRec \/ hdr.count > maxRec

\* ------------------------------------------------------ storage functions
\* mutant: the existing file is never kept
storageInitRing_Always(fsys, path, maxRec) ==
  [fsys EXCEPT ![path] = BlankFile(maxRec)]

\* _storageInitRing(path, maxRec): keep a valid file, else create a blank one
storageInitRing(fsys, path, maxRec) ==
  IF RingFileOk(fsys[path], maxRec)
  THEN fsys
  ELSE [fsys EXCEPT ![path] = BlankFile(maxRec)]

\* mutant: only the size of the candidate is tested
storageValidateRingFile_SizeOnly(fsys, path, maxRec) ==
  fsys[path] # Absent /\ fsys[path].size = ExpectedSize(maxRec)

storageValidateRingFile(fsys, path, maxRec) == RingFileOk(fsys[path], maxRec)

storageInit(fsys) ==
  storageInitRing(storageInitRing(fsys, HIST_FILE, MAX_REC),
                  HIST_RECENT_FILE, MAX_RECENT_REC)

storageClear(fsys) ==
  storageInit([fsys EXCEPT ![HIST_FILE] = Absent, ![HIST_RECENT_FILE] = Absent])

\* f.seek(sizeof(hdr) + idx*sizeof(HistRecord)); f.write(rec)
WriteRecordAt(f, idx, rec) ==
  LET pos == HDR_SIZE + idx * REC_SIZE
      n   == Max(Len(f.slots), idx + 1)
  IN  [f EXCEPT
         !.size  = Max(f.size, pos + REC_SIZE),
         !.slots = [i \in 1..n |->
                      IF i = idx + 1 THEN rec
                      ELSE IF i <= Len(f.slots) THEN f.slots[i]
                      ELSE ZeroRec]]

\* f.seek(0); f.write(hdr)
WriteHeaderAt(f, hdr) ==
  [f EXCEPT !.size = Max(f.size, HDR_SIZE), !.head = hdr.head, !.count = hdr.count]

\* mutant: head is advanced without the modulo
AdvanceHeader_NoWrap(hdr, maxRec) ==
  [head  |-> hdr.head + 1,
   count |-> IF hdr.count < maxRec THEN hdr.count + 1 ELSE hdr.count]

\* hdr.head = (hdr.head + 1) % maxRec; if (hdr.count < maxRec) hdr.count++
AdvanceHeader(hdr, maxRec) ==
  [head  |-> (hdr.head + 1) % maxRec,
   count |-> IF hdr.count < maxRec THEN hdr.count + 1 ELSE hdr.count]

\* mutant: the walk starts at head instead of head - 1
ReadIdx_FromHead(head, i, maxRec) == (head - i + maxRec) % maxRec

\* int idx = ((int)hdr.head - 1 - i + maxRec) % maxRec
ReadIdx(head, i, maxRec) == (head - 1 - i + maxRec) % maxRec

\* mutant: the caller's n is used without the min
ReadCnt_NoMin(count, n) == n

\* int cnt = min((int)hdr.count, n)
ReadCnt(count, n) == Min(count, n)

\* the records _storageReadRing copies to out[] from a valid ring file
ReadRecords(f, maxRec, n) ==
  IF f.count = 0 THEN <<>>
  ELSE [i \in 1..ReadCnt(f.count, n) |-> f.slots[ReadIdx(f.head, i - 1, maxRec) + 1]]

\* values f.read() can leave in an uninitialised HistHeader field when the
\* file is shorter than the header: in range, at the limit and beyond it
GarbageOf(maxRec) == {0, maxRec - 1, maxRec, maxRec + 1}

\* f.read((uint8_t*)&hdr, sizeof(hdr)) with the result unchecked
HeadersRead(f, maxRec) ==
  IF f.size >= HDR_SIZE
  THEN {[head |-> f.head, count |-> f.count]}
  ELSE [head : GarbageOf(maxRec), count : GarbageOf(maxRec)]

\* --------------------------------------------------------------- inputs
\* the readings a measurement cycle can leave in sens
SensInputs ==
  {[timestamp |-> t, level_pct |-> QInt(10 * t), volume_liters |-> QInt(5 * t),
    temp_c |-> IF t = 1 THEN NaN ELSE QInt(20 + t),
    distance_cm |-> QInt(100 - 10 * t), free_liters |-> QInt(50 - 5 * t),
    total_liters |-> QInt(50), valid |-> TRUE] : t \in 1..MaxTs}

\* appends followed per run between two clears: enough to wrap either ring
MaxAppends == Max(MAX_REC, MAX_RECENT_REC) + ExtraAppends

\* ---------------------------------------------------------------- state
VARIABLES
  fs,        \* LittleFS: path -> file or Absent
  sens,      \* SensorData sens: the current reading
  pc,        \* position of the control loop: "idle" or inside a handler
  wr,        \* locals of the append in flight (path, reading, header to write)
  out,       \* out[] filled by the last _storageReadRing
  ret,       \* last operation, its arguments and its return value
  appended,  \* history: per ring, readings appended since the file was blank
  was,       \* history: per ring, state of the file when the last operation began
  snap,      \* history: what a full readLatest returned when the append began
  up,        \* gHistUploadHourly / gHistUploadRecent, by ring path
  rp,        \* result of the storageReplaceRingFile call of the restore in flight
  resp,      \* HTTP response of the last restore request
  req,       \* history: the restore request in flight (ring, payload, bytes sent)
  trendCacheForTs,  \* _trendCacheForTs: timestamp the cached trend belongs to
  trendCache,       \* _trendCache: the cached TrendStats
  cleared,   \* history: the history was cleared and no trend computed since
  ema,       \* _ema_dist: the smoothed distance doMeasure keeps between cycles
  md,        \* measureDistance: n, i, buf[0..ok-1], the echoes taken, the result
  lv,        \* history: arguments of the last two computeLevel calls
  cfg,       \* Config cfg: the configuration the control loop runs with
  tg,        \* _tgEnabled, _alertLowSent, _alertHighSent; history: alerts sent
  tm,        \* millis(), tMeasure, tHourly; history: time since each firing
  cyc        \* doMeasure in flight: trigger, Config, dist; history: cycles in
             \* flight, cycles completed, valid samples seen, _ema_dist before;
             \* ds18_dt: _ds18_dt is set; tw, conv: milliseconds waited for the
             \* temperature and whether the conversion completed in that time

restoreVars == <<up, rp, resp, req>>

trendVars == <<trendCacheForTs, trendCache, cleared>>

measureVars == <<ema, md, lv, cyc>>

loopVars == <<cfg, tg, tm>>

vars == <<fs, sens, pc, wr, out, ret, appended, was, snap, up, rp, resp, req,
          trendCacheForTs, trendCache, cleared, ema, md, lv, cyc, cfg, tg, tm>>

NoHdr   == [head |-> 0, count |-> 0]
NoSens  == [timestamp |-> 0, level_pct |-> Q0, volume_liters |-> Q0, temp_c |-> NaN,
            distance_cm |-> Q0, free_liters |-> Q0, total_liters |-> Q0,
            valid |-> FALSE]
NoWrite == [path |-> "", s |-> NoSens, hdr |-> NoHdr]
NoRet   == [op |-> "none", path |-> "", n |-> 0, val |-> 0]

\* HistUploadState as constructed, and as every handler resets it
NoUpload == [file |-> FALSE, ok |-> FALSE, written |-> 0, maxBytes |-> 0,
             overflow |-> FALSE]
NoReplace == [ret |-> FALSE, how |-> "none", path |-> "", tmp0 |-> Absent,
              dst0 |-> Absent]
NoResp  == [code |-> 0, err |-> "", count |-> 0]
NoReq   == [path |-> "", payload |-> Absent, sent |-> 0, dst0 |-> Absent]

\* TrendStats st as constructed (ok = false, nothing computed)
NoTrend == [ok |-> FALSE, used24_l |-> NaN, used7d_l |-> NaN,
            rate24_lpd |-> NaN, rate7d_lpd |-> NaN, span24_s |-> 0,
            span7d_s |-> 0, days_left |-> NaN, eta_empty_ts |-> 0]

\* history of a computeTrendStats call that read no ring: hcnt and rcnt are
\* the record counts the two reads returned and fed the records the scan
\* accepted, in the order it met them
NoScan == [hcnt |-> 0, rcnt |-> 0, fed |-> <<>>]

\* static float _ema_dist = -1.0f
NoEma   == QInt(-1)

\* no computeLevel call made yet
NoLevel == [c |-> [empty_dist_cm |-> Q0, full_dist_cm |-> Q0, barrel_diam_cm |-> Q0],
            d |-> Q0, pc |-> [empty_dist_cm |-> Q0, full_dist_cm |-> Q0,
                              barrel_diam_cm |-> Q0],
            pd |-> Q0, ppct |-> Q0]

\* no measurement cycle started yet
NoCycle == [trig |-> "", c |-> [empty_dist_cm |-> Q0, full_dist_cm |-> Q0,
                                barrel_diam_cm |-> Q0, avg_samples |-> 0,
                                ema_alpha |-> Q0],
            dist |-> Q0, old |-> NoEma, inflight |-> 0, cycles |-> 0,
            seen |-> 0, ds18_dt |-> FALSE, tw |-> 0, conv |-> FALSE,
            ready |-> 0]

\* Config cfg as the C runtime zero-fills it before setup() loads it; a char
\* array the code only measures is held as its strlen
NoCfg == [trig_pin |-> 0, echo_pin |-> 0, ds18_pin |-> 0, avg_samples |-> 0,
          measure_sec |-> 0, mqtt_port |-> 0, barrel_diam_cm |-> Q0,
          empty_dist_cm |-> Q0, full_dist_cm |-> Q0, tg_en |-> FALSE,
          tg_alert_low_en |-> FALSE, tg_alert_high_en |-> FALSE,
          tg_token |-> 0, tg_alert_low |-> Q0, tg_alert_high |-> Q0,
          device_name |-> "", mqtt_topic |-> ""]

\* static bool _tgEnabled = false, _alertLowSent = false, _alertHighSent =
\* false; bool bootPhase = true. History: lowSince / highSince tell whether
\* an alert of that kind was sent and what the checks saw since ("none": no
\* alert sent yet, "sent": sent and no reset since, "reset": a reset since)
NoTg == [enabled |-> FALSE, alertLowSent |-> FALSE, alertHighSent |-> FALSE,
         bootPhase |-> TRUE, lowSince |-> "none", highSince |-> "none"]

\* 2^16: an unsigned long is held as two 16-bit halves
HALF == 65536

\* an unsigned long, as its two 16-bit halves
U32(hi, lo) == [hi |-> hi, lo |-> lo]

\* unsigned long tMeasure = 0, tHourly = 0; bool apMode = false; millis() at
\* power-up. History: the passes loop() made, the timers its last pass fired,
\* and for each timer the milliseconds that had really passed since it last
\* fired when that pass tested it and whether millis() had wrapped since
NoTimers == [millis |-> U32(0, 0), tMeasure |-> U32(0, 0),
             tHourly |-> U32(0, 0), apMode |-> FALSE, passes |-> 0,
             fired |-> {}, elapsedM |-> 0, elapsedH |-> 0,
             wrapM |-> FALSE, wrapH |-> FALSE]

\* no measureDistance call made yet
NoSampling == [n |-> 0, i |-> 0, buf |-> <<>>, raw |-> <<>>, res |-> Q0,
               avg |-> 0]

Ret(op, path, n, val) == [op |-> op, path |-> path, n |-> n, val |-> val]

\* "absent", "ok" or "bad": how the validity test sees the file of each ring
StatusOf(fsys) ==
  [p \in RingPaths |->
     IF fsys[p] = Absent THEN "absent"
     ELSE IF RingFileOk(fsys[p], MaxRecOf(p)) THEN "ok" ELSE "bad"]

\* a ring whose file an operation replaced starts a new append log
Track(fsNew) ==
  [p \in RingPaths |-> IF fsNew[p] = fs[p] THEN appended[p] ELSE <<>>]

\* the configuration, the alert flags and the timers before setup() ran
InitLoop ==
  /\ cfg = NoCfg
  /\ tg = NoTg
  /\ tm = NoTimers

\* RAM outside the control loop's own state, but the reading, at boot
InitCore ==
  /\ pc = "idle"
  /\ wr = NoWrite
  /\ out = <<>>
  /\ ret = NoRet
  /\ appended = [p \in RingPaths |-> <<>>]
  /\ was = StatusOf(fs)
  /\ snap = <<>>
  /\ up = [p \in RingPaths |-> NoUpload]
  /\ rp = NoReplace
  /\ resp = NoResp
  /\ req = NoReq
  /\ trendCacheForTs = 0
  /\ trendCache = NoTrend
  /\ cleared = FALSE
  /\ ema = NoEma
  /\ md = NoSampling
  /\ lv = NoLevel
  /\ cyc = NoCycle

\* everything of RAM but the reading, and the histories, as they are at boot
InitIdle ==
  /\ InitCore
  /\ InitLoop

\* volatile state and histories as they are at boot
InitRest ==
  /\ sens = NoSens
  /\ InitIdle

\* the store before first boot: each ring file absent or blank
Init ==
  /\ \E a \in {Absent, BlankFile(MAX_REC)} :
       \E b \in {Absent, BlankFile(MAX_RECENT_REC)} :
         fs = [q \in Paths |-> IF q = HIST_FILE THEN a
                               ELSE IF q = HIST_RECENT_FILE THEN b ELSE Absent]
  /\ InitRest

\* setup(): storageInit() at boot
Setup ==
  /\ pc = "idle"
  /\ fs' = storageInit(fs)
  /\ appended' = Track(fs')
  /\ ret' = Ret("init", "", 0, 1)
  /\ out' = <<>>
  /\ was' = StatusOf(fs)
  /\ snap' = <<>>
  /\ UNCHANGED <<sens, pc, wr>>
  /\ UNCHANGED restoreVars
  /\ UNCHANGED trendVars
  /\ UNCHANGED measureVars
  /\ UNCHANGED loopVars

\* doMeasureCallback(): a measurement cycle leaves a new reading in sens,
\* stamped with the current time, which never runs backwards
Measure(s) ==
  /\ pc = "idle"
  /\ s.timestamp >= sens.timestamp
  /\ sens' = s
  /\ ret' = Ret("measure", "", 0, 0)
  /\ out' = <<>>
  /\ snap' = <<>>
  /\ UNCHANGED <<fs, pc, wr, appended, was>>
  /\ UNCHANGED restoreVars
  /\ UNCHANGED trendVars
  /\ UNCHANGED measureVars
  /\ UNCHANGED loopVars

\* storageWrite(sens) / storageWriteRecent(sens): _storageWriteRing up to and
\* including f.write(rec); setup() and loop() call it after a measurement
WriteRingRecord(path) ==
  LET maxRec == MaxRecOf(path)
      s      == sens
      fs1    == IF fs[path] = Absent THEN storageInit(fs) ELSE fs
  IN
  /\ pc = "idle"
  /\ sens # NoSens
  /\ Len(appended[HIST_FILE]) + Len(appended[HIST_RECENT_FILE]) < MaxAppends
  /\ \E h1 \in HeadersRead(fs1[path], maxRec) :
       LET bad == HeaderOutOfRange(h1, maxRec)
           fs2 == IF bad THEN storageInitRing(fs1, path, maxRec) ELSE fs1
       IN  \E h2 \in (IF bad THEN HeadersRead(fs2[path], maxRec) ELSE {h1}) :
             /\ fs' = [fs2 EXCEPT ![path] =
                         WriteRecordAt(fs2[path], h2.head, HistRecordOf(s))]
             /\ wr' = [path |-> path, s |-> s, hdr |-> AdvanceHeader(h2, maxRec)]
             /\ appended' = [p \in RingPaths |->
                               IF fs2[p] = fs[p] THEN appended[p] ELSE <<>>]
  /\ pc' = "write_hdr"
  /\ ret' = Ret("append_rec", path, 0, 0)
  /\ out' = <<>>
  /\ was' = StatusOf(fs)
  /\ snap' = IF RingFileOk(fs[path], maxRec)
             THEN ReadRecords(fs[path], maxRec, maxRec) ELSE <<>>
  /\ UNCHANGED sens
  /\ UNCHANGED restoreVars
  /\ UNCHANGED trendVars
  /\ UNCHANGED measureVars
  /\ UNCHANGED loopVars

\* _storageWriteRing from hdr.head = ... to f.close()
WriteRingHeader ==
  /\ pc = "write_hdr"
  /\ fs' = [fs EXCEPT ![wr.path] = WriteHeaderAt(fs[wr.path], wr.hdr)]
  /\ appended' = [appended EXCEPT ![wr.path] = Append(@, wr.s)]
  /\ pc' = "idle"
  /\ wr' = NoWrite
  /\ ret' = Ret("append", wr.path, 0, 0)
  /\ out' = <<>>
  /\ snap' = <<>>
  /\ UNCHANGED <<sens, was>>
  /\ UNCHANGED restoreVars
  /\ UNCHANGED trendVars
  /\ UNCHANGED measureVars
  /\ UNCHANGED loopVars

\* _storageReadRing(path, maxRec, out, n)
ReadRing(path, n) ==
  LET maxRec == MaxRecOf(path) IN
  /\ pc = "idle"
  /\ IF fs[path] = Absent
     THEN /\ fs' = fs
          /\ out' = <<>>
          /\ ret' = Ret("read", path, n, 0)
     ELSE IF ~RingFileOk(fs[path], maxRec)
     THEN /\ fs' = storageInitRing([fs EXCEPT ![path] = Absent], path, maxRec)
          /\ out' = <<>>
          /\ ret' = Ret("read", path, n, 0)
     ELSE /\ fs' = fs
          /\ out' = ReadRecords(fs[path], maxRec, n)
          /\ ret' = Ret("read", path, n,
                        IF fs[path].count = 0 THEN 0 ELSE ReadCnt(fs[path].count, n))
  /\ appended' = Track(fs')
  /\ was' = StatusOf(fs)
  /\ snap' = <<>>
  /\ UNCHANGED <<sens, pc, wr>>
  /\ UNCHANGED restoreVars
  /\ UNCHANGED trendVars
  /\ UNCHANGED measureVars
  /\ UNCHANGED loopVars

\* _storageCountRing(path, maxRec)
CountRing(path) ==
  LET maxRec == MaxRecOf(path) IN
  /\ pc = "idle"
  /\ IF fs[path] = Absent
     THEN /\ fs' = fs
          /\ ret' = Ret("count", path, 0, 0)
     ELSE IF ~RingFileOk(fs[path], maxRec)
     THEN /\ fs' = storageInitRing([fs EXCEPT ![path] = Absent], path, maxRec)
          /\ ret' = Ret("count", path, 0, 0)
     ELSE /\ fs' = fs
          /\ ret' = Ret("count", path, 0, fs[path].count)
  /\ appended' = Track(fs')
  /\ out' = <<>>
  /\ was' = StatusOf(fs)
  /\ snap' = <<>>
  /\ UNCHANGED <<sens, pc, wr>>
  /\ UNCHANGED restoreVars
  /\ UNCHANGED trendVars
  /\ UNCHANGED measureVars
  /\ UNCHANGED loopVars

\* DELETE /api/history: storageClear(); _trendCacheForTs = 0
ClearHistory ==
  /\ pc = "idle"
  /\ fs' = storageClear(fs)
  /\ appended' = [p \in RingPaths |-> <<>>]
  /\ trendCacheForTs' = 0
  /\ cleared' = TRUE
  /\ ret' = Ret("clear", "", 0, 0)
  /\ out' = <<>>
  /\ was' = StatusOf(fs)
  /\ snap' = <<>>
  /\ UNCHANGED <<sens, pc, wr, trendCache>>
  /\ UNCHANGED restoreVars
  /\ UNCHANGED measureVars
  /\ UNCHANGED loopVars

Next ==
  \/ Setup
  \/ \E s \in SensInputs : Measure(s)
  \/ \E p \in RingPaths : WriteRingRecord(p)
  \/ WriteRingHeader
  \/ \E p \in RingPaths : \E n \in 0..(MaxRecOf(p) + 1) : ReadRing(p, n)
  \/ \E p \in RingPaths : CountRing(p)
  \/ ClearHistory

Spec == Init /\ [][Next]_vars

\* ------------------------------------------------------------ trend cache
\* n of storageRead(hbuf, 168): a week of hourly records, less than the ring
TREND_HBUF == MAX_REC - 1

\* the file system after _storageReadRing(path, maxRec, out, n)
storageReadFs(fsys, path, maxRec) ==
  IF fsys[path] = Absent THEN fsys
  ELSE IF ~RingFileOk(fsys[path], maxRec)
  THEN storageInitRing([fsys EXCEPT ![path] = Absent], path, maxRec)
  ELSE fsys

\* the return value of _storageReadRing(path, maxRec, out, n)
storageReadCnt(fsys, path, maxRec, n) ==
  IF fsys[path] = Absent \/ ~RingFileOk(fsys[path], maxRec) THEN 0
  ELSE IF fsys[path].count = 0 THEN 0
  ELSE ReadCnt(fsys[path].count, n)

\* mutant: the cached snapshot is never served
TrendCacheHit_Never(forTs, s) == FALSE

\* mutant: the cache is served whenever its key equals the reading's time
TrendCacheHit_NoZeroTest(forTs, s) == forTs = s.timestamp

\* _trendCacheForTs == s.timestamp && s.timestamp != 0
TrendCacheHit(forTs, s) == forTs = s.timestamp /\ s.timestamp # 0

\* ------------------------------------------------------------ TrendEngine
\* the three windows of the scan and the longest gap of a pair, in seconds
DAY_S    == 24 * 3600
WEEK_S   == 168 * 3600
RECENT_S == 3600
GAP_S    == 6 * 3600

\* (now > w) ? (now - w) : 0
WindowStart(now, w) == IF now > w THEN now - w ELSE 0

\* roundf(x * 10.0f) / 10.0f for x >= 0: the nearest tenth, halves upwards
Round10(x) == Q((20 * x.n + x.d) \div (2 * x.d), 10)

\* (uint32_t)x for x >= 0
Trunc(x) == x.n \div x.d

\* rec.volume >= 0.0f, false for NAN
VolumeOk(v) == v # NaN /\ QLe(Q0, v)

\* mutant: no upper limit on the gap between the two records of a pair
GapOk_NoUpper(dt) == dt >= 30

\* dt >= 30 && dt <= 6UL * 3600UL
GapOk(dt) == dt >= 30 /\ dt <= GAP_S

\* dv < -0.3f
IsUsage(dv) == QLt(dv, Q(-3, 10))

\* mutant: only the newer record of a pair has to lie inside the window
InWindow_NewerOnly(prevTs, recTs, since) == recTs >= since

\* prev.ts >= since && rec.ts >= since
InWindow(prevTs, recTs, since) == prevTs >= since /\ recTs >= since

\* the locals of computeTrendStats the lambda feed works on
FeedStart ==
  [havePrev |-> FALSE, prev |-> blank, have24Point |-> FALSE,
   have7Point |-> FALSE, first24 |-> 0, last24 |-> 0, first7 |-> 0,
   last7 |-> 0, used24 |-> Q0, used7 |-> Q0, fed |-> <<>>]

\* feed(rec): the locals a after the record
feed(a, rec, now) ==
  LET since24 == WindowStart(now, DAY_S)
      since7d == WindowStart(now, WEEK_S)
  IN
  IF rec.ts = 0 \/ rec.ts > now THEN a
  ELSE IF rec.ts < since7d THEN a
  ELSE IF ~VolumeOk(rec.volume) THEN a
  ELSE
    LET p24 == rec.ts >= since24
        p7  == rec.ts >= since7d
        dt  == rec.ts - a.prev.ts
        dv  == QSub(rec.volume, a.prev.volume)
        use == /\ a.havePrev
               /\ rec.ts > a.prev.ts
               /\ VolumeOk(a.prev.volume)
               /\ GapOk(dt)
               /\ IsUsage(dv)
    IN  [havePrev    |-> TRUE,
         prev        |-> rec,
         have24Point |-> a.have24Point \/ p24,
         have7Point  |-> a.have7Point \/ p7,
         first24     |-> IF p24 /\ ~a.have24Point THEN rec.ts ELSE a.first24,
         last24      |-> IF p24 THEN rec.ts ELSE a.last24,
         first7      |-> IF p7 /\ ~a.have7Point THEN rec.ts ELSE a.first7,
         last7       |-> IF p7 THEN rec.ts ELSE a.last7,
         used24      |-> IF use /\ InWindow(a.prev.ts, rec.ts, since24)
                         THEN QSub(a.used24, dv) ELSE a.used24,
         used7       |-> IF use /\ InWindow(a.prev.ts, rec.ts, since7d)
                         THEN QSub(a.used7, dv) ELSE a.used7,
         fed         |-> Append(a.fed, rec)]

\* if (hbuf[i].ts >= recentSince) continue
HourlySkipped(ts, recentSince) == ts >= recentSince

\* F(e), with e computed once
With(e, F(_)) == CHOOSE r \in {F(x) : x \in {e}} : TRUE

RECURSIVE FeedHourly(_, _, _, _)
\* for (int i = hcnt - 1; i >= 0; i--) over hbuf[0..i-1] (1-based: hbuf[1..i])
FeedHourly(a, hbuf, i, now) ==
  IF i = 0 THEN a
  ELSE With(IF HourlySkipped(hbuf[i].ts, WindowStart(now, RECENT_S))
            THEN a ELSE feed(a, hbuf[i], now),
            LAMBDA b : FeedHourly(b, hbuf, i - 1, now))

RECURSIVE FeedRecent(_, _, _, _)
\* for (int i = rcnt - 1; i >= 0; i--) feed(rbuf[i])
FeedRecent(a, rbuf, i, now) ==
  IF i = 0 THEN a
  ELSE With(feed(a, rbuf[i], now), LAMBDA b : FeedRecent(b, rbuf, i - 1, now))

\* used * 86400.0f / span, rounded to a tenth
RateOf(used, span) == Round10(QDiv(QMul(used, QInt(DAY_S)), QInt(span)))

\* mutant: a rate is usable whatever span it was measured over
RateUsable_AnySpan(rate, span, minSpan) == rate # NaN /\ QLt(Q(1, 5), rate)

\* !isnan(rate) && span >= minSpan && rate > 0.2f
RateUsable(rate, span, minSpan) ==
  rate # NaN /\ span >= minSpan /\ QLt(Q(1, 5), rate)

\* float useRate after the if / else if
UseRate(st) ==
  IF RateUsable(st.rate24_lpd, st.span24_s, GAP_S) THEN st.rate24_lpd
  ELSE IF RateUsable(st.rate7d_lpd, st.span7d_s, DAY_S) THEN st.rate7d_lpd
  ELSE NaN

\* mutant: the estimate is made for an empty tank too
EstimateMade_AnyVolume(useRate, volume) == useRate # NaN

\* !isnan(useRate) && s.volume_liters > 0.0f
EstimateMade(useRate, volume) == useRate # NaN /\ QLt(Q0, volume)

\* mutant: a trivial snapshot only for a reading without a timestamp
TrendTrivial_TsOnly(s) == s.timestamp = 0

\* s.timestamp == 0 || s.total_liters <= 0 || s.volume_liters < 0
TrendTrivial(s) ==
  s.timestamp = 0 \/ QLe(s.total_liters, Q0) \/ QLt(s.volume_liters, Q0)

\* used24_l .. span7d_s of the snapshot, from the locals a after the scan
TrendWindows(a) ==
  LET w24 == a.have24Point /\ a.last24 > a.first24
      w7  == a.have7Point /\ a.last7 > a.first7
  IN  [ok |-> TRUE,
       used24_l   |-> IF w24 THEN Round10(a.used24) ELSE NaN,
       span24_s   |-> IF w24 THEN a.last24 - a.first24 ELSE 0,
       rate24_lpd |-> IF w24 THEN RateOf(a.used24, a.last24 - a.first24)
                      ELSE NaN,
       used7d_l   |-> IF w7 THEN Round10(a.used7) ELSE NaN,
       span7d_s   |-> IF w7 THEN a.last7 - a.first7 ELSE 0,
       rate7d_lpd |-> IF w7 THEN RateOf(a.used7, a.last7 - a.first7)
                      ELSE NaN]

\* st.days_left and st.eta_empty_ts for the reading s and the rate chosen
TrendEstimate(s, useRate) ==
  IF EstimateMade(useRate, s.volume_liters)
  THEN With(QDiv(s.volume_liters, useRate),
            LAMBDA days :
              [days_left    |-> Round10(days),
               eta_empty_ts |-> s.timestamp + Trunc(QMul(days, QInt(DAY_S)))])
  ELSE [days_left |-> NaN, eta_empty_ts |-> 0]

\* TrendStats st of a scan of hbuf (hcnt records) and rbuf (rcnt records),
\* both newest first, for the reading s
TrendScan(s, hbuf, rbuf) ==
  With(FeedRecent(FeedHourly(FeedStart, hbuf, Len(hbuf), s.timestamp),
                  rbuf, Len(rbuf), s.timestamp),
       LAMBDA a :
         With(TrendWindows(a),
              LAMBDA st :
                With(TrendEstimate(s, UseRate(st)),
                     LAMBDA e :
                       [ok |-> TRUE,
                        used24_l |-> st.used24_l, used7d_l |-> st.used7d_l,
                        rate24_lpd |-> st.rate24_lpd,
                        rate7d_lpd |-> st.rate7d_lpd,
                        span24_s |-> st.span24_s, span7d_s |-> st.span7d_s,
                        days_left |-> e.days_left,
                        eta_empty_ts |-> e.eta_empty_ts,
                        hcnt |-> Len(hbuf), rcnt |-> Len(rbuf),
                        fed |-> a.fed])))

\* out[] of _storageReadRing(path, maxRec, out, n), newest first
storageReadOut(fsys, path, maxRec, n) ==
  IF fsys[path] = Absent \/ ~RingFileOk(fsys[path], maxRec) THEN <<>>
  ELSE ReadRecords(fsys[path], maxRec, n)

\* the TrendStats fields of the result of a scan, without the histories
StatsOf(tc) ==
  [ok |-> tc.ok, used24_l |-> tc.used24_l, used7d_l |-> tc.used7d_l,
   rate24_lpd |-> tc.rate24_lpd, rate7d_lpd |-> tc.rate7d_lpd,
   span24_s |-> tc.span24_s, span7d_s |-> tc.span7d_s,
   days_left |-> tc.days_left, eta_empty_ts |-> tc.eta_empty_ts]

\* the histories of the result of a scan
ScanOf(tc) == [hcnt |-> tc.hcnt, rcnt |-> tc.rcnt, fed |-> tc.fed]

\* the TrendStats st with the histories sc of the call that computed it
Scanned(st, sc) ==
  [ok |-> st.ok, used24_l |-> st.used24_l, used7d_l |-> st.used7d_l,
   rate24_lpd |-> st.rate24_lpd, rate7d_lpd |-> st.rate7d_lpd,
   span24_s |-> st.span24_s, span7d_s |-> st.span7d_s,
   days_left |-> st.days_left, eta_empty_ts |-> st.eta_empty_ts,
   hcnt |-> sc.hcnt, rcnt |-> sc.rcnt, fed |-> sc.fed]

\* the TrendStats computeTrendStats(s) computes on a cache miss, the recent
\* ring holding recCap records
TrendOfCap(fsys, s, recCap) ==
  IF TrendTrivial(s) THEN Scanned(NoTrend, NoScan)
  ELSE With(storageReadOut(fsys, HIST_FILE, MAX_REC, TREND_HBUF),
            LAMBDA hbuf :
              With(storageReadOut(storageReadFs(fsys, HIST_FILE, MAX_REC),
                                  HIST_RECENT_FILE, recCap, recCap),
                   LAMBDA rbuf : TrendScan(s, hbuf, rbuf)))

\* the TrendStats computeTrendStats(s) computes on a cache miss
TrendOf(fsys, s) == TrendOfCap(fsys, s, MAX_RECENT_REC)

\* what a computeTrendStats call returns and did: n ring reads, val = 1
\* when the cached snapshot was returned, scan the histories of its scan
TrendRet(n, val, scan) ==
  [op |-> "trend", path |-> "", n |-> n, val |-> val, scan |-> scan]

\* computeTrendStats(sens), the recent ring holding recCap records
computeTrendStatsOn(recCap) ==
  /\ IF TrendCacheHit(trendCacheForTs, sens)
     THEN /\ ret' = TrendRet(0, 1, NoScan)
          /\ UNCHANGED <<fs, trendCacheForTs, trendCache, cleared>>
     ELSE /\ trendCacheForTs' = sens.timestamp
          /\ cleared' = FALSE
          /\ \E t \in {TrendOfCap(fs, sens, recCap)} :
               /\ trendCache' = StatsOf(t)
               /\ ret' = TrendRet(IF TrendTrivial(sens) THEN 0 ELSE 2, 0,
                                  ScanOf(t))
          /\ fs' = IF TrendTrivial(sens) THEN fs
                   ELSE storageReadFs(storageReadFs(fs, HIST_FILE, MAX_REC),
                                      HIST_RECENT_FILE, recCap)
  /\ appended' = Track(fs')
  /\ out' = <<>>
  /\ was' = StatusOf(fs)
  /\ snap' = <<>>
  /\ UNCHANGED loopVars

\* computeTrendStats(sens)
computeTrendStats == computeTrendStatsOn(MAX_RECENT_REC)

\* GET /api/status: buildStatus(cfg, sens)
ComputeTrend ==
  /\ pc = "idle"
  /\ computeTrendStats
  /\ UNCHANGED <<sens, pc, wr>>
  /\ UNCHANGED restoreVars
  /\ UNCHANGED measureVars

NextTrend == Next \/ ComputeTrend

SpecTrend == Init /\ [][NextTrend]_vars

\* ------------------------------------------------------ trend scan inputs
\* time(nullptr) with the clock set by NTP, and 5 h 33 min after a boot
\* without network
SyncedNow   == 1000000
UnsyncedNow == 20000

\* the readings a trend is asked for: without a timestamp, of a tank without
\* a diameter, with a negative volume, half full, empty, and half full on
\* the unsynchronized clock
TrendReading(t, vol, total) ==
  [NoSens EXCEPT !.timestamp = t, !.volume_liters = vol,
                 !.total_liters = total, !.valid = TRUE]

TrendReadings ==
  {TrendReading(0, QInt(50), QInt(100)),
   TrendReading(SyncedNow, Q0, Q0),
   TrendReading(SyncedNow, QInt(-1), QInt(100)),
   TrendReading(SyncedNow, QInt(50), QInt(100)),
   TrendReading(SyncedNow, Q0, QInt(100)),
   TrendReading(UnsyncedNow, QInt(50), QInt(100))}

\* the record written off seconds before now with the given volume; a slot
\* never written when that is before the clock started
RecAt(now, off, vol) ==
  IF off >= now THEN blank
  ELSE [ts |-> now - off, level |-> QInt(50), volume |-> vol, temp_c |-> NaN]

\* what a slot of the hourly ring can hold: nothing, and records 27 h, 24 h,
\* 12 h, 6 h and 30 min old
HourlyRecs(now) ==
  {blank, RecAt(now, 27 * 3600, QInt(110)), RecAt(now, 24 * 3600, QInt(100)),
   RecAt(now, 12 * 3600, QInt(100)), RecAt(now, 6 * 3600, QInt(90)),
   RecAt(now, 1800, QInt(70))}

\* what a slot of the recent ring can hold: nothing, records 26 h, 8 h, 3 h,
\* 50 min and 49 min 40 s old, a record of this second and one with a
\* negative volume
RecentRecs(now) ==
  {blank, RecAt(now, 26 * 3600, QInt(105)),
   RecAt(now, 8 * 3600, QInt(95)), RecAt(now, 3 * 3600, QInt(80)),
   RecAt(now, 3000, Q(797, 10)), RecAt(now, 2980, QInt(60)),
   RecAt(now, 0, QInt(90)), RecAt(now, 300, QInt(-1))}

\* a ring file holding the records recs, oldest first, appended to a blank file
RingHolding(maxRec, recs) ==
  [size  |-> ExpectedSize(maxRec),
   head  |-> Len(recs) % maxRec,
   count |-> Len(recs),
   slots |-> [i \in 1..maxRec |-> IF i <= Len(recs) THEN recs[i] ELSE blank]]

\* the clock the records of a store were written by
ClockOf(s) == IF s.timestamp = 0 THEN SyncedNow ELSE s.timestamp

\* a store restored from any backup of TREND_HBUF hourly and MAX_RECENT_REC
\* recent slots, in any order, and the reading of the last cycle
InitEngine ==
  /\ \E s \in TrendReadings :
       /\ sens = s
       /\ \E h \in [1..TREND_HBUF -> HourlyRecs(ClockOf(s))] :
            \E r \in [1..MAX_RECENT_REC -> RecentRecs(ClockOf(s))] :
              fs = [q \in Paths |->
                      IF q = HIST_FILE THEN RingHolding(MAX_REC, h)
                      ELSE IF q = HIST_RECENT_FILE
                      THEN RingHolding(MAX_RECENT_REC, r) ELSE Absent]
  /\ InitIdle

NextEngine == ComputeTrend

SpecEngine == InitEngine /\ [][NextEngine]_vars

\* ------------------------------------------------- status requests at run
\* the readings of three cycles: two stamped within the same second, with
\* 50 L and 40 L, and one two hours later with 30 L
StatusReadings ==
  {TrendReading(SyncedNow, QInt(50), QInt(100)),
   TrendReading(SyncedNow, QInt(40), QInt(100)),
   TrendReading(SyncedNow + 7200, QInt(30), QInt(100))}

\* hourly records six hours apart, the newest six hours old, each 10 L below
\* the one before: as many as a trend scan reads
HourlyHistory ==
  [i \in 1..TREND_HBUF |->
     RecAt(SyncedNow, GAP_S * (TREND_HBUF + 1 - i), QInt(100 - 10 * (i - 1)))]

\* the device after setup() on a store that is blank or holds hourly history
InitStatus ==
  /\ \E h \in {BlankFile(MAX_REC), RingHolding(MAX_REC, HourlyHistory)} :
       fs = [q \in Paths |->
               IF q = HIST_FILE THEN h
               ELSE IF q = HIST_RECENT_FILE THEN BlankFile(MAX_RECENT_REC)
               ELSE Absent]
  /\ InitRest

\* loop(): measurement cycles, the hourly snapshot, and the requests
\* GET /api/status and DELETE /api/history served by handleClient()
NextStatus ==
  \/ \E s \in StatusReadings : Measure(s)
  \/ WriteRingRecord(HIST_FILE)
  \/ WriteRingHeader
  \/ ClearHistory
  \/ ComputeTrend

SpecStatus == InitStatus /\ [][NextStatus]_vars

\* ------------------------------------------------------------ RangeSampler
\* echo times pulseIn() returns, in microseconds: 0 on timeout, else the
\* width of the echo (34.3 cm, 68.6 cm, 480.2 cm and 500.78 cm)
Durs == {0, 2000, 4000, 28000, 29200}

\* _hcsr04_once: if (dur == 0) return -1.0f; return dur * 0.01715f
hcsr04_once(dur) == IF dur = 0 THEN QInt(-1) ELSE QMul(QInt(dur), Q(343, 20000))

\* mutant: no upper limit on an accepted echo
Plausible_NoUpper(d) == QLt(Q0, d)

\* d > 0 && d < 500
Plausible(d) == QLt(Q0, d) /\ QLt(d, QInt(500))

\* mutant: the configured count is used as it is
NumSamples_NoMin(c) == c.avg_samples

\* int n = min((int)c.avg_samples, SENSOR_MAX_SAMPLES)
NumSamples(c) == Min(c.avg_samples, SENSOR_MAX_SAMPLES)

RECURSIVE InsertKey(_, _)
\* the inner loop of the insertion sort: key moves left past every larger
\* element of the sorted prefix
InsertKey(sorted, key) ==
  IF sorted # <<>> /\ QLt(key, sorted[Len(sorted)])
  THEN Append(InsertKey(SubSeq(sorted, 1, Len(sorted) - 1), key),
              sorted[Len(sorted)])
  ELSE Append(sorted, key)

RECURSIVE InsertionSort(_)
\* for (int i = 1; i < ok; i++) insert buf[i] into buf[0..i-1]
InsertionSort(buf) ==
  IF Len(buf) <= 1 THEN buf
  ELSE InsertKey(InsertionSort(SubSeq(buf, 1, Len(buf) - 1)), buf[Len(buf)])

\* mutant: the upper middle element is returned for every count
MedianOf_UpperMiddle(buf) == buf[(Len(buf) \div 2) + 1]

\* if (ok % 2 == 1) return buf[ok / 2];
\* return (buf[ok / 2 - 1] + buf[ok / 2]) / 2.0f
MedianOf(buf) ==
  LET ok == Len(buf) IN
  IF ok % 2 = 1 THEN buf[(ok \div 2) + 1]
  ELSE QDiv(QAdd(buf[ok \div 2], buf[(ok \div 2) + 1]), QInt(2))

\* the value measureDistance returns once the sampling loop has filled buf
SampleResult(buf) ==
  IF Len(buf) = 0 THEN QInt(-1) ELSE MedianOf(InsertionSort(buf))

RECURSIVE AcceptedOf(_)
\* buf after the sampling loop ran over the echoes it took
AcceptedOf(raw) ==
  IF raw = <<>> THEN <<>>
  ELSE LET front == AcceptedOf(SubSeq(raw, 1, Len(raw) - 1))
           d     == raw[Len(raw)]
       IN  IF Plausible(d) THEN Append(front, d) ELSE front

\* measureDistance(c) when pulseIn() returns durs[1], durs[2], ...
measureDistance(c, durs) ==
  LET n   == Min(NumSamples(c), Len(durs))
      raw == [i \in 1..n |-> hcsr04_once(durs[i])]
  IN  SampleResult(AcceptedOf(raw))

\* the sample counts a configuration can ask for
SamplerConfigs == {[avg_samples |-> a] : a \in 0..(SENSOR_MAX_SAMPLES + 1)}

\* measureDistance entered: buf empty, ok = 0, n computed
SampleStart(c) ==
  /\ pc = "idle"
  /\ md' = [n |-> NumSamples(c), i |-> 0, buf |-> <<>>, raw |-> <<>>,
            res |-> Q0, avg |-> c.avg_samples]
  /\ pc' = "sampling"
  /\ ret' = Ret("sample_start", "", 0, 0)
  /\ UNCHANGED <<fs, sens, wr, out, appended, was, snap, ema, lv, cyc>>
  /\ UNCHANGED restoreVars
  /\ UNCHANGED trendVars
  /\ UNCHANGED loopVars

\* one pass of the sampling loop: a pulse, and the echo kept if plausible
PulseOnce(dur) ==
  LET d == hcsr04_once(dur) IN
  /\ pc = "sampling"
  /\ md.i < md.n
  /\ md' = [md EXCEPT !.i = md.i + 1,
                      !.raw = Append(md.raw, d),
                      !.buf = IF Plausible(d) THEN Append(md.buf, d) ELSE md.buf]
  /\ ret' = Ret("pulse", "", 0, 0)
  /\ UNCHANGED <<fs, sens, pc, wr, out, appended, was, snap, ema, lv, cyc>>
  /\ UNCHANGED restoreVars
  /\ UNCHANGED trendVars
  /\ UNCHANGED loopVars

\* the loop is over: -1 when nothing was accepted, else sort and median
SampleEnd ==
  /\ pc = "sampling"
  /\ ~(md.i < md.n)
  /\ md' = [md EXCEPT !.res = SampleResult(md.buf)]
  /\ pc' = "idle"
  /\ ret' = Ret("sample", "", md.i, 0)
  /\ UNCHANGED <<fs, sens, wr, out, appended, was, snap, ema, lv, cyc>>
  /\ UNCHANGED restoreVars
  /\ UNCHANGED trendVars
  /\ UNCHANGED loopVars

NextSampler ==
  \/ \E c \in SamplerConfigs : SampleStart(c)
  \/ \E dur \in Durs : PulseOnce(dur)
  \/ SampleEnd

SpecSampler == Init /\ [][NextSampler]_vars

\* -------------------------------------------------------------- LevelModel
\* PI of Arduino.h, to the precision a float holds it
PI == Q(355, 113)

\* constrain(amt, low, high): amt < low ? low : (amt > high ? high : amt)
Constrain(amt, low, high) ==
  IF QLt(amt, low) THEN low ELSE IF QLt(high, amt) THEN high ELSE amt

\* mutant: only a zero range is taken for a misconfiguration
RangeInvalid_ZeroOnly(range) == range = Q0

\* range <= 0
RangeInvalid(range) == QLe(range, Q0)

\* mutant: the distance is measured from the full mark
LevelPct_FromFull(c, dist_cm) ==
  QMul(QDiv(QSub(dist_cm, c.full_dist_cm),
            QSub(c.empty_dist_cm, c.full_dist_cm)), QInt(100))

\* float pct = (c.empty_dist_cm - dist_cm) / range * 100.0f
LevelPct(c, dist_cm) ==
  QMul(QDiv(QSub(c.empty_dist_cm, dist_cm),
            QSub(c.empty_dist_cm, c.full_dist_cm)), QInt(100))

\* s.total_liters = PI * r * r * h / 1000.0f with r = c.barrel_diam_cm / 2
TotalLiters(c) ==
  LET r == QDiv(c.barrel_diam_cm, QInt(2))
      h == QSub(c.empty_dist_cm, c.full_dist_cm)
  IN  QDiv(QMul(QMul(QMul(PI, r), r), h), QInt(1000))

\* mutant: the percentage is taken for a fraction
VolumeLiters_NoScale(total, level_pct) == QMul(total, level_pct)

\* s.volume_liters = s.total_liters * s.level_pct / 100.0f
VolumeLiters(total, level_pct) == QDiv(QMul(total, level_pct), QInt(100))

\* computeLevel(c, dist_cm, s): the Reading s with its derived fields set
computeLevel(c, dist_cm, s) ==
  LET valid == QLt(Q0, dist_cm)
      range == QSub(c.empty_dist_cm, c.full_dist_cm)
      s1    == [s EXCEPT !.distance_cm = dist_cm, !.valid = valid]
  IN  IF ~valid \/ RangeInvalid(range)
      THEN [s1 EXCEPT !.level_pct = Q0, !.volume_liters = Q0,
                      !.free_liters = Q0, !.total_liters = Q0]
      ELSE LET level == Constrain(LevelPct(c, dist_cm), Q0, QInt(100)) IN
           IF QLt(Q0, c.barrel_diam_cm)
           THEN LET total  == TotalLiters(c)
                    volume == VolumeLiters(total, level)
                IN  [s1 EXCEPT !.level_pct = level, !.total_liters = total,
                               !.volume_liters = volume,
                               !.free_liters = QSub(total, volume)]
           ELSE [s1 EXCEPT !.level_pct = level, !.total_liters = Q0,
                           !.volume_liters = Q0, !.free_liters = Q0]

\* calibrations: the default one, one with the two marks exchanged, one
\* with both marks equal; each with the default diameter and with none
LevelConfigs ==
  {[empty_dist_cm |-> QInt(e[1]), full_dist_cm |-> QInt(e[2]),
    barrel_diam_cm |-> QInt(dm)] :
      e \in {<<110, 25>>, <<25, 110>>, <<50, 50>>}, dm \in {0, 51}}

\* distances doMeasure hands to computeLevel: 0 while nothing was ever
\* measured, else a smoothed distance (above, at, between and below the marks)
LevelDists ==
  {Q0, QInt(10), QInt(25), QInt(50), Q(135, 2), QInt(80), QInt(109),
   QInt(110), QInt(200)}

\* computeLevel(c, dist_cm, sens)
ComputeLevel(c, dist_cm) ==
  /\ pc = "idle"
  /\ sens' = computeLevel(c, dist_cm, sens)
  /\ lv' = [c |-> c, d |-> dist_cm, pc |-> lv.c, pd |-> lv.d,
            ppct |-> sens.level_pct]
  /\ ret' = Ret("level", "", 0, 0)
  /\ UNCHANGED <<fs, pc, wr, out, appended, was, snap, ema, md, cyc>>
  /\ UNCHANGED restoreVars
  /\ UNCHANGED trendVars
  /\ UNCHANGED loopVars

NextLevel == \E c \in LevelConfigs : \E d \in LevelDists : ComputeLevel(c, d)

SpecLevel == Init /\ [][NextLevel]_vars

\* -------------------------------------------------------- MeasurementCycle
\* mutant: the upper limit of the smoothing factor is not enforced
ClampAlpha_NoUpper(alpha) == IF QLt(alpha, Q(1, 100)) THEN Q(1, 100) ELSE alpha

\* float alpha = constrain(c.ema_alpha, 0.01f, 1.0f)
ClampAlpha(alpha) == Constrain(alpha, Q(1, 100), QInt(1))

\* mutant: the two weights are exchanged
EmaBlend_Swapped(alpha, dist, old) ==
  QAdd(QMul(QSub(QInt(1), alpha), dist), QMul(alpha, old))

\* _ema_dist = alpha * dist + (1.0f - alpha) * _ema_dist
EmaBlend(alpha, dist, old) ==
  QAdd(QMul(alpha, dist), QMul(QSub(QInt(1), alpha), old))

\* _ema_dist after the cycle measured dist
EmaNext(c, dist, old) ==
  IF QLt(dist, Q0) THEN old
  ELSE IF QLt(old, Q0) THEN dist
  ELSE EmaBlend(ClampAlpha(c.ema_alpha), dist, old)

\* mutant: the level of an invalid cycle is computed from what was measured
HoldDistance_Raw(dist, e) == dist

\* _ema_dist > 0 ? _ema_dist : 0
HoldDistance(dist, e) == IF QLt(Q0, e) THEN e ELSE Q0

\* sens after the if/else of doMeasure, e being _ema_dist after it
LevelAfter(c, dist, e, s) ==
  IF QLt(dist, Q0)
  THEN [computeLevel(c, HoldDistance(dist, e), s) EXCEPT !.valid = FALSE]
  ELSE computeLevel(c, e, s)

\* what starts a cycle: setup(), the periodic check of loop(), the serial
\* console, POST /api/measure and the Telegram command
Triggers == {"boot", "timer", "serial", "http", "telegram"}

\* mutant: the web server runs its handlers from the system context, which
\* delay() and yield() give control to
TriggerContext_Async(t) ==
  IF t = "http" THEN {"idle", "measuring", "stamping"} ELSE {"idle"}

\* where control is when trigger t calls doMeasureCallback(): in setup() or
\* at a statement of loop() (serialPoll, handleClient, the periodic check,
\* tgLoop), never inside a handler
TriggerContext(t) == {"idle"}

\* a Config of two samples per cycle
ConfigOf(empty, full, diam, alpha) ==
  [empty_dist_cm |-> QInt(empty), full_dist_cm |-> QInt(full),
   barrel_diam_cm |-> QInt(diam), avg_samples |-> 2, ema_alpha |-> alpha]

\* configurations a cycle can run under: a valid calibration with smoothing
\* factors below, inside, at the top of and above the range, with and
\* without a diameter, and a calibration with the marks exchanged
MeasureConfigs ==
  {ConfigOf(110, 25, 20, Q0), ConfigOf(110, 25, 20, Q(1, 2)),
   ConfigOf(110, 25, 0, QInt(1)), ConfigOf(110, 25, 20, Q(3, 2)),
   ConfigOf(25, 110, 20, Q(1, 2))}

\* echo times of a cycle: a timeout, 34.3 cm and 480.2 cm
CycleDurs == {0, 2000, 28000}

\* s.temp_c after the temperature block: NAN (no sensor object, or
\* DEVICE_DISCONNECTED_C read) or the 21 C getTempCByIndex(0) returned
Temps == {NaN, QInt(21)}

\* initTempSensor(cfg) in setup(): the sensor object is made if ds18_en
InitTempSensor ==
  /\ pc = "idle"
  /\ cyc.cycles = 0
  /\ ~cyc.ds18_dt
  /\ cyc' = [cyc EXCEPT !.ds18_dt = TRUE]
  /\ ret' = Ret("init_temp", "", 0, 0)
  /\ UNCHANGED <<fs, sens, pc, wr, out, appended, was, snap, ema, md, lv>>
  /\ UNCHANGED restoreVars
  /\ UNCHANGED trendVars
  /\ UNCHANGED loopVars

\* doMeasureCallback() entered: doMeasure up to the call of measureDistance
MeasureStart(t, c) ==
  /\ pc \in TriggerContext(t)
  /\ cyc.cycles < MaxCycles
  /\ t = "boot" <=> cyc.cycles = 0
  /\ cyc' = [cyc EXCEPT !.trig = t, !.c = c, !.dist = Q0, !.old = ema,
                        !.inflight = cyc.inflight + 1]
  /\ pc' = "measuring"
  /\ ret' = Ret("measure_start", "", 0, 0)
  /\ UNCHANGED <<fs, sens, wr, out, appended, was, snap, ema, md, lv>>
  /\ UNCHANGED restoreVars
  /\ UNCHANGED trendVars
  /\ UNCHANGED loopVars

\* doMeasure from measureDistance(c) to the end of the if/else: the echoes
\* are sampled, _ema_dist is updated and computeLevel fills sens
MeasureSample(durs) ==
  LET c    == cyc.c
      dist == measureDistance(c, durs)
      e    == EmaNext(c, dist, ema)
  IN
  /\ pc = "measuring"
  /\ Len(durs) = NumSamples(c)
  /\ ema' = e
  /\ sens' = LevelAfter(c, dist, e, sens)
  /\ cyc' = [cyc EXCEPT !.dist = dist, !.old = ema,
                        !.seen = IF QLt(dist, Q0) THEN cyc.seen ELSE cyc.seen + 1]
  /\ pc' = "stamping"
  /\ ret' = Ret("measure_level", "", 0, 0)
  /\ UNCHANGED <<fs, wr, out, appended, was, snap, md, lv>>
  /\ UNCHANGED restoreVars
  /\ UNCHANGED trendVars
  /\ UNCHANGED loopVars

\* doMeasure from the temperature wait to s.timestamp = time(nullptr), and
\* the return of doMeasureCallback; POST /api/measure goes on to answer
MeasureStamp(t, now) ==
  /\ pc = "stamping"
  /\ now >= sens.timestamp
  /\ cyc.ds18_dt \/ t = NaN
  /\ sens' = [sens EXCEPT !.temp_c = t, !.timestamp = now]
  /\ cyc' = [cyc EXCEPT !.inflight = cyc.inflight - 1, !.cycles = cyc.cycles + 1,
                        !.trig = IF cyc.trig = "http" THEN "http" ELSE ""]
  /\ pc' = IF cyc.trig = "http" THEN "respond" ELSE "idle"
  /\ ret' = Ret("measure_done", "", 0, 0)
  /\ UNCHANGED <<fs, wr, out, appended, was, snap, ema, md, lv>>
  /\ UNCHANGED restoreVars
  /\ UNCHANGED trendVars
  /\ UNCHANGED loopVars

\* POST /api/measure after the cycle: sendJson(srv, buildStatus(cfg, sens))
MeasureRespond ==
  /\ pc = "respond"
  /\ computeTrendStats
  /\ pc' = "idle"
  /\ cyc' = [cyc EXCEPT !.trig = ""]
  /\ UNCHANGED <<sens, wr, ema, md, lv>>
  /\ UNCHANGED restoreVars
  /\ UNCHANGED loopVars

NextMeasure ==
  \/ InitTempSensor
  \/ \E t \in Triggers : \E c \in MeasureConfigs : MeasureStart(t, c)
  \/ \E d1 \in CycleDurs : \E d2 \in CycleDurs : MeasureSample(<<d1, d2>>)
  \/ \E t \in Temps : \E now \in 1..MaxTs : MeasureStamp(t, now)
  \/ MeasureRespond

\* the device in setup(), storageInit() done, before the first measurement
InitMeasure ==
  /\ fs = [q \in Paths |-> IF q \in RingPaths THEN BlankFile(MaxRecOf(q))
                           ELSE Absent]
  /\ InitRest

SpecMeasure == InitMeasure /\ [][NextMeasure]_vars

\* ------------------------------------------- the cycle, wait by wait
\* the limit of the temperature wait and the delay(5) of each poll, in ms
TEMP_WAIT_MS == 250
TEMP_POLL_MS == 5

\* a conversion that does not finish while the cycle waits
NoConv == 0 - 1

\* ms the conversion requested at the start of the cycle still takes when
\* the wait begins
ConvTimes == {0, 100, NoConv}

\* _ds18_dt->isConversionComplete() after tw ms of waiting
isConversionComplete(c) == c.ready # NoConv /\ ~(c.tw < c.ready)

\* mutant: the wait has no time limit
TempWaitExpired_Never(tw) == FALSE

\* !(millis() - tw < 250UL)
TempWaitExpired(tw) == ~(tw < TEMP_WAIT_MS)

\* doMeasure calls measureDistance(c): buf empty, ok = 0, n computed
CycleSampleStart ==
  /\ pc = "measuring"
  /\ md' = [n |-> NumSamples(cyc.c), i |-> 0, buf |-> <<>>, raw |-> <<>>,
            res |-> Q0, avg |-> cyc.c.avg_samples]
  /\ pc' = "cycle_sampling"
  /\ ret' = Ret("sample_start", "", 0, 0)
  /\ UNCHANGED <<fs, sens, wr, out, appended, was, snap, ema, lv, cyc>>
  /\ UNCHANGED restoreVars
  /\ UNCHANGED trendVars
  /\ UNCHANGED loopVars

\* one pass of the sampling loop inside the cycle: pulseIn() returns the
\* echo time, or 0 after its 30 ms timeout
CyclePulse(dur) ==
  LET d == hcsr04_once(dur) IN
  /\ pc = "cycle_sampling"
  /\ md.i < md.n
  /\ md' = [md EXCEPT !.i = md.i + 1,
                      !.raw = Append(md.raw, d),
                      !.buf = IF Plausible(d) THEN Append(md.buf, d) ELSE md.buf]
  /\ ret' = Ret("pulse", "", 0, 0)
  /\ UNCHANGED <<fs, sens, pc, wr, out, appended, was, snap, ema, lv, cyc>>
  /\ UNCHANGED restoreVars
  /\ UNCHANGED trendVars
  /\ UNCHANGED loopVars

\* measureDistance returns and doMeasure runs its if/else: _ema_dist is
\* updated, computeLevel fills sens and the temperature wait begins, the
\* conversion being ready ms from its end
CycleLevel(ready) ==
  LET c    == cyc.c
      dist == SampleResult(md.buf)
      e    == EmaNext(c, dist, ema)
  IN
  /\ pc = "cycle_sampling"
  /\ ~(md.i < md.n)
  /\ ema' = e
  /\ sens' = LevelAfter(c, dist, e, sens)
  /\ md' = NoSampling
  /\ cyc' = [cyc EXCEPT !.dist = dist, !.old = ema, !.tw = 0, !.conv = FALSE,
                        !.ready = IF cyc.ds18_dt THEN ready ELSE NoConv,
                        !.seen = IF QLt(dist, Q0) THEN cyc.seen ELSE cyc.seen + 1]
  /\ pc' = IF cyc.ds18_dt THEN "awaiting" ELSE "stamping"
  /\ ret' = Ret("measure_level", "", 0, 0)
  /\ UNCHANGED <<fs, wr, out, appended, was, snap, lv>>
  /\ UNCHANGED restoreVars
  /\ UNCHANGED trendVars
  /\ UNCHANGED loopVars

\* one test of the while loop: the loop is left when the conversion is
\* complete or the time is up, else delay(5) passes (the clock of the model
\* stops at the limit)
TempPoll ==
  /\ pc = "awaiting"
  /\ IF isConversionComplete(cyc) \/ TempWaitExpired(cyc.tw)
     THEN /\ pc' = "stamping"
          /\ cyc' = [cyc EXCEPT !.conv = isConversionComplete(cyc)]
     ELSE /\ pc' = pc
          /\ cyc' = [cyc EXCEPT !.tw = Min(cyc.tw + TEMP_POLL_MS, TEMP_WAIT_MS)]
  /\ ret' = Ret("temp_poll", "", 0, 0)
  /\ UNCHANGED <<fs, sens, wr, out, appended, was, snap, ema, md, lv>>
  /\ UNCHANGED restoreVars
  /\ UNCHANGED trendVars
  /\ UNCHANGED loopVars

\* the configuration and the echoes of the cycles followed wait by wait
CycleConfigs == {ConfigOf(110, 25, 20, Q(1, 2))}
EchoDurs     == {0, 2000}

\* the steps of a cycle in flight, from the call of measureDistance to the
\* timestamp
CycleStep ==
  \/ CycleSampleStart
  \/ \E dur \in EchoDurs : CyclePulse(dur)
  \/ \E ready \in ConvTimes : CycleLevel(ready)
  \/ TempPoll
  \/ \E t \in Temps : \E now \in 1..MaxTs : MeasureStamp(t, now)

NextCycle ==
  \/ InitTempSensor
  \/ \E t \in {"boot", "timer", "http"} : \E c \in CycleConfigs : MeasureStart(t, c)
  \/ CycleStep
  \/ MeasureRespond

SpecCycle == InitMeasure /\ [][NextCycle]_vars

\* the statements of a cycle in flight that the model takes in one step each
CycleRuns ==
  \/ CycleSampleStart
  \/ \E dur \in EchoDurs : CyclePulse(dur)
  \/ TempPoll
  \/ \E t \in Temps : \E now \in 1..MaxTs : MeasureStamp(t, now)

\* control leaves the sampling loop once its last pass is done: the step
\* from there is CycleLevel, which is taken whatever the samples were
LevelReturn ==
  /\ pc = "cycle_sampling"
  /\ ~(md.i < md.n)
  /\ pc' \in {"awaiting", "stamping"}

\* doMeasure runs to its end once called: the processor executes the next
\* statement of the cycle in flight
SpecCycleLive == SpecCycle /\ WF_vars(CycleRuns) /\ WF_pc(LevelReturn)

\* ------------------------------------------------ power loss during append
\* power is lost after f.write(rec) and before the header write; the device
\* reboots, RAM is lost and setup() runs storageInit()
Crash ==
  /\ pc = "write_hdr"
  /\ fs' = storageInit(fs)
  /\ sens' = NoSens
  /\ pc' = "idle"
  /\ wr' = NoWrite
  /\ out' = <<>>
  /\ ret' = Ret("crash", wr.path, 0, 0)
  /\ appended' = Track(fs')
  /\ up' = [p \in RingPaths |-> NoUpload]
  /\ rp' = NoReplace
  /\ trendCacheForTs' = 0
  /\ trendCache' = NoTrend
  /\ ema' = NoEma
  /\ md' = NoSampling
  /\ lv' = NoLevel
  /\ cyc' = NoCycle
  /\ UNCHANGED <<was, snap, resp, req, cleared>>
  /\ tg' = NoTg
  /\ tm' = NoTimers
  /\ UNCHANGED cfg

NextCrash == Next \/ Crash

SpecCrash == Init /\ [][NextCrash]_vars

\* ------------------------------------------- stores found in any condition
\* the record a ring file of unknown origin holds in slot i (0-based)
OldRec(i) ==
  [ts |-> 100 + i, level |-> QInt(50 + i), volume |-> QInt(70 + i),
   temp_c |-> QInt(15 + i)]

\* a file of nSlots whole records with the given header
FileWith(nSlots, head, count) ==
  [size  |-> HDR_SIZE + nSlots * REC_SIZE,
   head  |-> head,
   count |-> count,
   slots |-> [i \in 1..nSlots |-> OldRec(i - 1)]]

\* ring files as a firmware change, a restore or flash damage can leave them:
\* every header in and just out of range, on files one slot short, exact and
\* one slot long, and a file cut to nothing
FilesFound(maxRec) ==
  {Absent, EmptyFile, BlankFile(maxRec)}
    \cup {FileWith(maxRec, h, c) : h \in 0..maxRec, c \in 0..(maxRec + 1)}
    \cup {FileWith(n, h, c) : n \in {maxRec - 1, maxRec + 1},
                              h \in {0, maxRec - 1, maxRec},
                              c \in {0, maxRec + 1}}

\* one ring in any condition, the other one absent
InitFound ==
  /\ \E p \in RingPaths : \E f \in FilesFound(MaxRecOf(p)) :
       fs = [q \in Paths |-> IF q = p THEN f ELSE Absent]
  /\ InitRest

SpecFound == InitFound /\ [][Next]_vars

\* ------------------------------------------------------- backup / restore
\* a record of which only the first t bytes exist (whole fields only)
TruncRec(rec, t) ==
  [ts     |-> IF t >= FIELD_SIZE     THEN rec.ts     ELSE 0,
   level  |-> IF t >= 2 * FIELD_SIZE THEN rec.level  ELSE Q0,
   volume |-> IF t >= 3 * FIELD_SIZE THEN rec.volume ELSE Q0,
   temp_c |-> IF t >= 4 * FIELD_SIZE THEN rec.temp_c ELSE Q0]

\* the file made of the first b bytes of f
Prefix(f, b) ==
  IF b < HDR_SIZE
  THEN [size |-> b, head |-> 0, count |-> 0, slots |-> <<>>]
  ELSE LET body == b - HDR_SIZE
           full == body \div REC_SIZE
           tail == body % REC_SIZE
           n    == IF tail > 0 THEN full + 1 ELSE full
       IN  [size  |-> b,
            head  |-> f.head,
            count |-> f.count,
            slots |-> [i \in 1..n |-> IF i <= full THEN f.slots[i]
                                       ELSE TruncRec(f.slots[i], tail)]]

\* byte counts at which the copy loop of storageReplaceRingFile can stop
CopyPoints(size) ==
  {m \in {0, HDR_SIZE, HDR_SIZE + REC_SIZE, size} : m <= size}

\* mutant: the copied destination is not validated again
CopyResult_NoRevalidate(fsys, tmpPath, dstPath, maxRec, m) ==
  [fs |-> [fsys EXCEPT ![dstPath] = Prefix(fsys[tmpPath], m), ![tmpPath] = Absent],
   ret |-> TRUE, how |-> "copied"]

\* the copy fallback: dst holds the first m bytes of tmp when the loop ends
\* (out.write() short, or in.read() returning 0); a short write returns
\* false at once, otherwise the destination is validated again
CopyResult(fsys, tmpPath, dstPath, maxRec, m) ==
  LET fs2 == [fsys EXCEPT ![dstPath] = Prefix(fsys[tmpPath], m)]
      ok  == storageValidateRingFile(fs2, dstPath, maxRec)
  IN  IF ok
      THEN [fs |-> [fs2 EXCEPT ![tmpPath] = Absent], ret |-> TRUE, how |-> "copied"]
      ELSE [fs |-> fs2, ret |-> FALSE, how |-> "copy_failed"]

\* storageReplaceRingFile(tmpPath, dstPath, maxRec): every outcome the file
\* system allows (rename works; rename fails and an open fails; rename
\* fails and the copy stops after m bytes)
storageReplaceRingFile(fsys, tmpPath, dstPath, maxRec) ==
  IF ~storageValidateRingFile(fsys, tmpPath, maxRec)
  THEN {[fs |-> fsys, ret |-> FALSE, how |-> "invalid"]}
  ELSE LET fs1 == [fsys EXCEPT ![dstPath] = Absent]
       IN  {[fs |-> [fs1 EXCEPT ![dstPath] = fsys[tmpPath], ![tmpPath] = Absent],
             ret |-> TRUE, how |-> "renamed"]}
           \cup {[fs |-> fs1, ret |-> FALSE, how |-> "open_failed"]}
           \cup {CopyResult(fs1, tmpPath, dstPath, maxRec, m) :
                   m \in CopyPoints(fs1[tmpPath].size)}

\* UPLOAD_FILE_END: if (st.written != st.maxBytes) st.ok = false
UploadEndOk(st) == IF st.written # st.maxBytes THEN FALSE ELSE st.ok

\* sizes of the chunks the web server hands to the upload callback
ChunkSizes(remaining) ==
  {c \in {HDR_SIZE, REC_SIZE, remaining} : c > 0 /\ c <= remaining}

\* the files a client uploads for a ring of capacity maxRec: a valid ring,
\* rings of the right size with head or count out of range, files one slot
\* and one field short, and a file one slot long
Payloads(maxRec) ==
  {FileWith(maxRec, maxRec - 1, maxRec),
   FileWith(maxRec, maxRec, 0),
   FileWith(maxRec, 0, maxRec + 1),
   FileWith(maxRec - 1, 0, 0),
   FileWith(maxRec + 1, 0, 0),
   Prefix(FileWith(maxRec, 0, 1), ExpectedSize(maxRec) - FIELD_SIZE)}

\* handleHistoryBinUploadChunk, case UPLOAD_FILE_START
UploadStart(path, payload) ==
  /\ pc = "idle"
  /\ fs' = [fs EXCEPT ![TmpOf(path)] = EmptyFile]
  /\ up' = [up EXCEPT ![path] = [file |-> TRUE, ok |-> TRUE, written |-> 0,
                                 maxBytes |-> ExpectedSize(MaxRecOf(path)),
                                 overflow |-> FALSE]]
  /\ req' = [path |-> path, payload |-> payload, sent |-> 0, dst0 |-> fs[path]]
  /\ pc' = "upload"
  /\ ret' = Ret("upload_start", path, 0, 0)
  /\ resp' = NoResp
  /\ UNCHANGED <<sens, wr, out, appended, was, snap, rp>>
  /\ UNCHANGED trendVars
  /\ UNCHANGED measureVars
  /\ UNCHANGED loopVars

\* handleHistoryBinUploadChunk, case UPLOAD_FILE_WRITE
UploadWrite(chunk, writeOk) ==
  LET path == req.path
      st   == up[path]
  IN
  /\ pc = "upload"
  /\ chunk \in ChunkSizes(req.payload.size - req.sent)
  /\ IF ~st.file \/ ~st.ok
     THEN UNCHANGED <<fs, up>>
     ELSE IF st.written + chunk > st.maxBytes
     THEN /\ up' = [up EXCEPT ![path].ok = FALSE, ![path].overflow = TRUE]
          /\ UNCHANGED fs
     ELSE IF ~writeOk
     THEN /\ up' = [up EXCEPT ![path].ok = FALSE]
          /\ UNCHANGED fs
     ELSE /\ up' = [up EXCEPT ![path].written = st.written + chunk]
          /\ fs' = [fs EXCEPT ![TmpOf(path)] =
                      Prefix(req.payload, st.written + chunk)]
  /\ req' = [req EXCEPT !.sent = req.sent + chunk]
  /\ ret' = Ret("upload_write", path, 0, 0)
  /\ UNCHANGED <<sens, pc, wr, out, appended, was, snap, rp, resp>>
  /\ UNCHANGED trendVars
  /\ UNCHANGED measureVars
  /\ UNCHANGED loopVars

\* handleHistoryBinUploadChunk, case UPLOAD_FILE_END
UploadEnd ==
  LET path == req.path IN
  /\ pc = "upload"
  /\ req.sent = req.payload.size
  /\ up' = [up EXCEPT ![path].file = FALSE, ![path].ok = UploadEndOk(up[path])]
  /\ pc' = "uploaded"
  /\ ret' = Ret("upload_end", path, 0, 0)
  /\ UNCHANGED <<fs, sens, wr, out, appended, was, snap, rp, resp, req>>
  /\ UNCHANGED trendVars
  /\ UNCHANGED measureVars
  /\ UNCHANGED loopVars

\* handleHistoryBinUploadChunk, case UPLOAD_FILE_ABORTED
UploadAborted ==
  LET path == req.path IN
  /\ pc = "upload"
  /\ fs' = [fs EXCEPT ![TmpOf(path)] = Absent]
  /\ up' = [up EXCEPT ![path] = NoUpload]
  /\ pc' = "idle"
  /\ ret' = Ret("upload_abort", path, 0, 0)
  /\ UNCHANGED <<sens, wr, out, appended, was, snap, rp, resp, req>>
  /\ UNCHANGED trendVars
  /\ UNCHANGED measureVars
  /\ UNCHANGED loopVars

\* handleHistoryBinUploadFinalize up to the return of storageReplaceRingFile;
\* it runs after UPLOAD_FILE_END, or alone for a POST that carries no file
FinalizeReplace(path) ==
  LET st  == up[path]
      tmp == TmpOf(path)
  IN
  /\ \/ pc = "uploaded" /\ path = req.path /\ req' = req
     \/ pc = "idle" /\ req' = [path |-> path, payload |-> Absent, sent |-> 0,
                               dst0 |-> fs[path]]
  /\ IF ~st.ok \/ fs[tmp] = Absent
     THEN /\ fs' = [fs EXCEPT ![tmp] = Absent]
          /\ up' = [up EXCEPT ![path] = NoUpload]
          /\ resp' = [code |-> 400, count |-> 0,
                      err |-> IF st.overflow THEN "file_too_large" ELSE "upload"]
          /\ rp' = NoReplace
          /\ pc' = "idle"
          /\ ret' = Ret("restore", path, 0, 400)
     ELSE \E o \in storageReplaceRingFile(fs, tmp, path, MaxRecOf(path)) :
            /\ fs' = o.fs
            /\ rp' = [ret |-> o.ret, how |-> o.how, path |-> path,
                      tmp0 |-> fs[tmp], dst0 |-> fs[path]]
            /\ up' = [up EXCEPT ![path].file = FALSE]
            /\ pc' = "replaced"
            /\ ret' = Ret("replace", path, 0, 0)
            /\ resp' = NoResp
  /\ appended' = Track(fs')
  /\ UNCHANGED <<sens, wr, out, was, snap>>
  /\ UNCHANGED trendVars
  /\ UNCHANGED measureVars
  /\ UNCHANGED loopVars

\* handleHistoryBinUploadFinalize after storageReplaceRingFile returned
FinalizeRespond ==
  LET path == rp.path
      tmp  == TmpOf(path)
  IN
  /\ pc = "replaced"
  /\ IF ~rp.ret
     THEN /\ fs' = [fs EXCEPT ![tmp] = Absent]
          /\ resp' = [code |-> 400, count |-> 0, err |-> "invalid_history_file"]
          /\ ret' = Ret("restore", path, 0, 400)
          /\ UNCHANGED trendCacheForTs
     ELSE /\ fs' = fs
          /\ resp' = [code |-> 200, err |-> "",
                      count |-> IF storageValidateRingFile(fs, path, MaxRecOf(path))
                                THEN fs[path].count ELSE 0]
          /\ ret' = Ret("restore", path, 0, 200)
          /\ trendCacheForTs' = 0
  /\ up' = [up EXCEPT ![path] = NoUpload]
  /\ rp' = NoReplace
  /\ pc' = "idle"
  /\ UNCHANGED <<sens, wr, out, appended, was, snap, req, trendCache, cleared>>
  /\ UNCHANGED measureVars
  /\ UNCHANGED loopVars

NextRestore ==
  \/ \E p \in RingPaths : \E f \in Payloads(MaxRecOf(p)) : UploadStart(p, f)
  \/ \E c \in {HDR_SIZE, REC_SIZE, req.payload.size - req.sent} :
       \E w \in BOOLEAN : UploadWrite(c, w)
  \/ UploadEnd
  \/ UploadAborted
  \/ \E p \in RingPaths : FinalizeReplace(p)
  \/ FinalizeRespond

\* a ring that holds one appended reading
StoredFile(maxRec) ==
  WriteHeaderAt(
    WriteRecordAt(BlankFile(maxRec), 0,
                  HistRecordOf(CHOOSE s \in SensInputs : s.timestamp = 1)),
    AdvanceHeader([head |-> 0, count |-> 0], maxRec))

\* the stores a restore request can meet: missing, holding data, or invalid
InitRestore ==
  /\ \E a \in {Absent, StoredFile(MAX_REC), FileWith(MAX_REC + 1, 0, 0)} :
       \E b \in {Absent, StoredFile(MAX_RECENT_REC)} :
         fs = [q \in Paths |-> IF q = HIST_FILE THEN a
                               ELSE IF q = HIST_RECENT_FILE THEN b ELSE Absent]
  /\ InitRest

SpecRestore == InitRestore /\ [][NextRestore]_vars

\* -------------------------------------------------------- event detection
\* capacity of the recent ring where events are detected (60 in the
\* firmware) and of the event list evs[] (8 in the firmware)
EV_REC  == 4
MAX_EVS == 2

\* roundf(x * 10.0f) / 10.0f for any x: halves away from zero
Round10S(x) ==
  IF QLt(x, Q0) THEN QSub(Q0, Round10(QSub(Q0, x))) ELSE Round10(x)

\* fabsf(x)
QAbs(x) == IF QLt(x, Q0) THEN QSub(Q0, x) ELSE x

\* mutant: no upper limit on the gap between the records of an event pair
EventGapOk_NoUpper(dt) == dt >= 30

\* !(dt < 30 || dt > 20UL * 60UL)
EventGapOk(dt) == ~(dt < 30 \/ dt > 20 * 60)

\* dv * 3600.0f / (float)dt
EventRate(dv, dt) == QDiv(QMul(dv, QInt(3600)), QInt(dt))

\* mutant: a leak is told by the volume lost alone
EventType_NoRate(dv, rate) ==
  IF QLe(dv, QInt(-4)) THEN "leak"
  ELSE IF QLe(QInt(6), dv) THEN "fill"
  ELSE IF QLe(dv, QInt(-6)) THEN "draw"
  ELSE ""

\* const char *type: "" stands for nullptr
EventType(dv, rate) ==
  IF QLe(dv, QInt(-4)) /\ QLe(rate, QInt(-18)) THEN "leak"
  ELSE IF QLe(QInt(6), dv) THEN "fill"
  ELSE IF QLe(dv, QInt(-6)) THEN "draw"
  ELSE ""

\* mutant: events of the same type merge whatever the time between them
EventMerges_AnyGap(last, type, ts) == last.type = type

\* strcmp(last.type, type) == 0 && rec.ts - last.ts <= 15UL * 60UL, the
\* difference taken in uint32_t: with rec.ts < last.ts it wraps to more
\* than 2^32 - last.ts, far above 900 for every timestamp of the model
EventMerges(last, type, ts) ==
  last.type = type /\ ~(ts < last.ts) /\ ts - last.ts <= 15 * 60

\* last.ts = rec.ts; last.delta_l += dv;
\* if (fabsf(rate) > fabsf(last.rate_lph)) last.rate_lph = rate
EventMerged(last, ts, dv, rate) ==
  [ts |-> ts, type |-> last.type, delta_l |-> QAdd(last.delta_l, dv),
   rate_lph |-> IF QLt(QAbs(last.rate_lph), QAbs(rate)) THEN rate
                ELSE last.rate_lph]

\* mutant: a full list drops the new event
EventPushed_DropNew(evs, e) ==
  IF Len(evs) < MAX_EVS THEN Append(evs, e) ELSE evs

\* evs[evCount++] = e, or memmove(&evs[0], &evs[1], ...) and
\* evs[evCount - 1] = e when the list is full
EventPushed(evs, e) ==
  IF Len(evs) < MAX_EVS THEN Append(evs, e) ELSE Append(Tail(evs), e)

\* the locals of buildRecentEvents before the loop; pairs is the history of
\* the pairs (prev, rec) the loop compared, with the type it gave each
EventStart ==
  [havePrev |-> FALSE, prev |-> blank, evs |-> <<>>, pairs |-> <<>>]

\* mutant: only a record with a bad volume is passed over
EventSkipped_VolumeOnly(rec) == ~VolumeOk(rec.volume)

\* rec.ts == 0 || !(rec.volume >= 0.0f)
EventSkipped(rec) == rec.ts = 0 \/ ~VolumeOk(rec.volume)

\* mutant: a record stamped no later than prev is dropped, prev kept
SteppedBackPrev_Kept(prev, rec) == prev

\* if (rec.ts <= prev.ts) { prev = rec; continue; }: prev after it
SteppedBackPrev(prev, rec) == rec

\* one pass of the loop body over rec
eventFeed(a, rec) ==
  IF EventSkipped(rec) THEN a
  ELSE IF ~a.havePrev THEN [a EXCEPT !.prev = rec, !.havePrev = TRUE]
  ELSE IF rec.ts <= a.prev.ts
  THEN [a EXCEPT !.prev = SteppedBackPrev(a.prev, rec),
                 !.pairs = Append(@, [prev |-> a.prev, rec |-> rec,
                                      type |-> ""])]
  ELSE IF ~EventGapOk(rec.ts - a.prev.ts)
  THEN [a EXCEPT !.prev = rec,
                 !.pairs = Append(@, [prev |-> a.prev, rec |-> rec,
                                      type |-> ""])]
  ELSE
    LET dt   == rec.ts - a.prev.ts
        dv   == QSub(rec.volume, a.prev.volume)
        rate == EventRate(dv, dt)
        type == EventType(dv, rate)
        n    == Len(a.evs)
    IN  [havePrev |-> TRUE,
         prev     |-> rec,
         evs      |-> IF type = "" THEN a.evs
                      ELSE IF n > 0 /\ EventMerges(a.evs[n], type, rec.ts)
                      THEN [a.evs EXCEPT
                              ![n] = EventMerged(a.evs[n], rec.ts, dv, rate)]
                      ELSE EventPushed(a.evs, [ts |-> rec.ts, type |-> type,
                                               delta_l |-> dv,
                                               rate_lph |-> rate]),
         pairs    |-> Append(a.pairs, [prev |-> a.prev, rec |-> rec,
                                       type |-> type])]

RECURSIVE EventScan(_, _, _)
\* for (int i = rcnt - 1; i >= 0; i--) over rbuf[0..i-1] (1-based: rbuf[1..i])
EventScan(a, rbuf, i) ==
  IF i = 0 THEN a
  ELSE With(eventFeed(a, rbuf[i]), LAMBDA b : EventScan(b, rbuf, i - 1))

\* the "events" array of the response: evs[evCount - 1] down to evs[0]
EventsJson(evs) ==
  [k \in 1..Len(evs) |->
     [ts       |-> evs[Len(evs) + 1 - k].ts,
      type     |-> evs[Len(evs) + 1 - k].type,
      delta_l  |-> Round10S(evs[Len(evs) + 1 - k].delta_l),
      rate_lph |-> Round10S(evs[Len(evs) + 1 - k].rate_lph)]]

\* what a buildRecentEvents call returns and did: val the response, rbuf
\* what the read returned, scan the locals when the loop ended
EventsRet(rbuf, a) ==
  [op |-> "events", path |-> HIST_RECENT_FILE, n |-> Len(rbuf),
   val |-> EventsJson(a.evs), rbuf |-> rbuf, scan |-> a]

\* GET /api/events: buildRecentEvents() on a recent ring of maxRec records
buildRecentEvents(maxRec) ==
  /\ pc = "idle"
  /\ \E rbuf \in {storageReadOut(fs, HIST_RECENT_FILE, maxRec, maxRec)} :
       \E a \in {EventScan(EventStart, rbuf, Len(rbuf))} :
         ret' = EventsRet(rbuf, a)
  /\ fs' = storageReadFs(fs, HIST_RECENT_FILE, maxRec)
  /\ out' = <<>>
  /\ UNCHANGED <<sens, pc, wr, appended, was, snap>>
  /\ UNCHANGED restoreVars
  /\ UNCHANGED trendVars
  /\ UNCHANGED measureVars
  /\ UNCHANGED loopVars

\* the record stamped off seconds after SyncedNow with the given volume
EventRec(off, vol) ==
  [ts |-> SyncedNow + off, level |-> QInt(50), volume |-> QInt(vol),
   temp_c |-> NaN]

\* what a slot of the recent ring can hold: nothing, a record with a
\* negative volume, and records that give every event pair: 20 s, 10 min,
\* 15 min, 20 min and more apart, the volume rising, falling fast, falling
\* slowly, falling at exactly 18 L per hour, and steady
EventRecs ==
  {blank, EventRec(900, -1), EventRec(0, 45), EventRec(620, 60),
   EventRec(600, 44), EventRec(1200, 40), EventRec(1800, 39),
   EventRec(2100, 33), EventRec(2400, 45), EventRec(3000, 33)}

\* a store restored from any backup of EV_REC recent slots, in any order
InitEvents ==
  /\ \E r \in [1..EV_REC -> EventRecs] :
       fs = [q \in Paths |->
               IF q = HIST_FILE THEN BlankFile(MAX_REC)
               ELSE IF q = HIST_RECENT_FILE THEN RingHolding(EV_REC, r)
               ELSE Absent]
  /\ InitRest

NextEvents == buildRecentEvents(EV_REC)

SpecEvents == InitEvents /\ [][NextEvents]_vars

\* ----------------------------------------------------- history and export
\* the records buildHistory and handleExport read from the hourly file
\* themselves, oldest first: none unless the file passes the validity test,
\* else slot (start + i) % MAX_REC for i < hdr.count, with
\* start = (hdr.head - hdr.count + MAX_REC) % MAX_REC
OldestFirst(f, maxRec) ==
  IF ~RingFileOk(f, maxRec) THEN <<>>
  ELSE [i \in 1..f.count |->
          f.slots[((((f.head - f.count + maxRec) % maxRec) + i - 1) % maxRec) + 1]]

\* a sequence back to front
Reversed(seq) == [k \in 1..Len(seq) |-> seq[Len(seq) + 1 - k]]

\* String(x, 1): x with one decimal
OneDecimal(x) == IF x = NaN THEN NaN ELSE Round10S(x)

\* a row of the CSV: the minute of the record, level, volume, temperature
\* (empty for NAN)
CsvRow(rec) ==
  [datetime |-> rec.ts - (rec.ts % 60), level_pct |-> OneDecimal(rec.level),
   volume_liters |-> OneDecimal(rec.volume), temp_c |-> OneDecimal(rec.temp_c)]

\* what a reader returns and did: val its output, recs the records it put out
ReaderRet(op, path, val, recs) ==
  [op |-> op, path |-> path, n |-> Len(val), val |-> val, recs |-> recs]

\* GET /api/export: handleExport()
handleExport ==
  /\ pc = "idle"
  /\ \E recs \in {SelectSeq(OldestFirst(fs[HIST_FILE], MAX_REC),
                            LAMBDA rec : ~(rec.ts = 0))} :
       ret' = ReaderRet("export", HIST_FILE,
                        [k \in 1..Len(recs) |-> CsvRow(recs[k])], recs)
  /\ out' = <<>>
  /\ UNCHANGED <<fs, sens, pc, wr, appended, was, snap>>
  /\ UNCHANGED restoreVars
  /\ UNCHANGED trendVars
  /\ UNCHANGED measureVars
  /\ UNCHANGED loopVars

\* if (hours < 1) hours = 24; if (hours > HISTORY_UI_MAX_HOURS) hours = ...
HistoryHours(hours) ==
  LET h == IF hours < 1 THEN 24 ELSE hours
  IN  IF h > MAX_REC THEN MAX_REC ELSE h

\* olderStride for olderEligible hourly points in a range of hours
OlderStride(hours, olderEligible) ==
  LET olderTarget == IF hours > 168
                     THEN (IF hours > 720 THEN 80 ELSE 110)
                     ELSE olderEligible
  IN  IF olderEligible > olderTarget
      THEN (olderEligible + olderTarget - 1) \div olderTarget
      ELSE 1

\* the hourly points kept of the eligible ones: every olderStride-th and
\* the last
OlderKept(older, stride) ==
  IF stride > 1
  THEN [k \in {j \in 1..Len(older) :
                 (j - 1) % stride = 0 \/ j = Len(older)} |-> older[k]]
  ELSE [k \in 1..Len(older) |-> older[k]]

\* the point addRec adds for rec: label (format and the time it prints),
\* level, volume and temperature with one decimal
HistoryPoint(rec, hours, recentSince) ==
  [label  |-> IF hours <= 24 \/ rec.ts >= recentSince
              THEN <<"%H:%M", (rec.ts % DAY_S) \div 60>>
              ELSE <<"%d.%m", rec.ts \div DAY_S>>,
   value  |-> OneDecimal(rec.level), volume |-> OneDecimal(rec.volume),
   temp   |-> OneDecimal(rec.temp_c)]

\* GET /api/history?h=hours at time now >= hours * 3600: buildHistory(hours),
\* the recent ring holding recCap records
buildHistory(hours, now, recCap) ==
  /\ pc = "idle"
  /\ \E h \in {HistoryHours(hours)} :
       \E older \in {SelectSeq(OldestFirst(fs[HIST_FILE], MAX_REC),
                               LAMBDA rec :
                                 /\ ~(rec.ts = 0 \/ rec.ts < now - h * 3600)
                                 /\ ~(rec.ts >= WindowStart(now, RECENT_S)))} :
         \E recent \in {SelectSeq(
                          Reversed(storageReadOut(fs, HIST_RECENT_FILE,
                                                  recCap, recCap)),
                          LAMBDA rec :
                            ~(rec.ts < now - h * 3600 \/ rec.ts = 0))} :
           \E recs \in {OlderKept(older, OlderStride(h, Len(older)))
                          \o recent} :
             ret' = ReaderRet("history", HIST_RECENT_FILE,
                              [k \in 1..Len(recs) |->
                                 HistoryPoint(recs[k], h,
                                              WindowStart(now, RECENT_S))],
                              recs)
  /\ fs' = storageReadFs(fs, HIST_RECENT_FILE, recCap)
  /\ out' = <<>>
  /\ UNCHANGED <<sens, pc, wr, appended, was, snap>>
  /\ UNCHANGED restoreVars
  /\ UNCHANGED trendVars
  /\ UNCHANGED measureVars
  /\ UNCHANGED loopVars

\* GET /api/status, the recent ring holding EV_REC records
ComputeTrendOn(recCap) ==
  /\ pc = "idle"
  /\ computeTrendStatsOn(recCap)
  /\ UNCHANGED <<sens, pc, wr>>
  /\ UNCHANGED restoreVars
  /\ UNCHANGED measureVars

\* the hourly ring of a store: slot i holds a record written between 2 h
\* and 1 h before now, each 10 min and 2 L after the one before, but slot
\* gap, which was never written
ReaderHourly(now, gap) ==
  [i \in 1..MAX_REC |->
     IF i = gap THEN blank
     ELSE RecAt(now, 3600 + 600 * (MAX_REC + 1 - i), QInt(80 - 2 * i))]

\* what a recent slot can hold: nothing, records 40, 30 and 10 min old
ReaderRecent(now) ==
  {blank, RecAt(now, 2400, QInt(56)), RecAt(now, 1800, QInt(50)),
   RecAt(now, 600, QInt(40))}

\* the reading of the last cycle, taken at the synchronized or at the
\* unsynchronized clock, and a store restored from a backup whose header
\* counts every slot: MAX_REC hourly slots of which one may be blank and
\* EV_REC recent slots, in any order
InitReaders ==
  /\ \E now \in {SyncedNow, UnsyncedNow} :
       /\ sens = TrendReading(now, QInt(30), QInt(100))
       /\ \E gap \in 0..MAX_REC :
            \E r \in [1..EV_REC -> ReaderRecent(now)] :
              fs = [q \in Paths |->
                      IF q = HIST_FILE
                      THEN RingHolding(MAX_REC, ReaderHourly(now, gap))
                      ELSE IF q = HIST_RECENT_FILE
                      THEN RingHolding(EV_REC, r) ELSE Absent]
  /\ InitIdle

\* the requests that read the logs, served at the time of the last reading
NextReaders ==
  \/ ComputeTrendOn(EV_REC)
  \/ buildRecentEvents(EV_REC)
  \/ \E hours \in {0, 1, 2} : buildHistory(hours, sens.timestamp, EV_REC)
  \/ handleExport

SpecReaders == InitReaders /\ [][NextReaders]_vars

\* --------------------------------------------- a clock that steps back
\* storageWriteRecent(s) on a valid recent ring of maxRec records, after a
\* cycle left the reading s in sens: the record goes to slot hdr.head and the
\* header advances
storageWriteRecentOn(maxRec, s) ==
  /\ pc = "idle"
  /\ RingFileOk(fs[HIST_RECENT_FILE], maxRec)
  /\ Len(appended[HIST_RECENT_FILE]) < maxRec + ExtraAppends
  /\ sens' = s
  /\ fs' = [fs EXCEPT ![HIST_RECENT_FILE] =
              WriteHeaderAt(WriteRecordAt(@, @.head, HistRecordOf(s)),
                            AdvanceHeader([head |-> @.head, count |-> @.count],
                                          maxRec))]
  /\ appended' = [appended EXCEPT ![HIST_RECENT_FILE] = Append(@, s)]
  /\ ret' = Ret("append", HIST_RECENT_FILE, 0, 0)
  /\ out' = <<>>
  /\ UNCHANGED <<pc, wr, was, snap>>
  /\ UNCHANGED restoreVars
  /\ UNCHANGED trendVars
  /\ UNCHANGED measureVars
  /\ UNCHANGED loopVars

\* the readings of cycles run at the clock values SyncedNow, 10 min and
\* 20 min later, the tank at 56 L, 50 L and 40 L of 100 L
OrderReadings ==
  {TrendReading(SyncedNow, QInt(56), QInt(100)),
   TrendReading(SyncedNow + 600, QInt(50), QInt(100)),
   TrendReading(SyncedNow + 1200, QInt(40), QInt(100))}

\* the device after setup() on a blank store
InitOrder ==
  /\ fs = [q \in Paths |->
             IF q = HIST_FILE THEN BlankFile(MAX_REC)
             ELSE IF q = HIST_RECENT_FILE THEN BlankFile(EV_REC)
             ELSE Absent]
  /\ InitRest

\* readings stored while the clock is set forwards and backwards between
\* the cycles, and the requests that scan the recent ring
NextOrder ==
  \/ \E s \in OrderReadings : storageWriteRecentOn(EV_REC, s)
  \/ ComputeTrendOn(EV_REC)
  \/ buildRecentEvents(EV_REC)

SpecOrder == InitOrder /\ [][NextOrder]_vars

\* ------------------------------------------------------- configuration
\* configDefaults(c): the fields the control loop and the checks below read
configDefaults ==
  [trig_pin |-> 14, echo_pin |-> 12, ds18_pin |-> 2, avg_samples |-> 10,
   measure_sec |-> 60, mqtt_port |-> 1883, barrel_diam_cm |-> QInt(51),
   empty_dist_cm |-> QInt(110), full_dist_cm |-> QInt(25), tg_en |-> TRUE,
   tg_alert_low_en |-> FALSE, tg_alert_high_en |-> FALSE, tg_token |-> 0,
   tg_alert_low |-> QInt(20), tg_alert_high |-> QInt(95),
   device_name |-> "watersensor", mqtt_topic |-> "watersensor"]

\* auto fixU8 = [&](uint8_t &v, uint8_t def, ...): v == 0 || v > 16
BadU8(v) == v = 0 \/ v > 16

\* the tests of sanitizeConfig, in the order it makes them; lowAfter is
\* tg_alert_low as the test before left it
BadAvgSamples(c) == c.avg_samples < 1 \/ c.avg_samples > 10
BadMeasureSec(c) == c.measure_sec < 10 \/ c.measure_sec > 3600
BadDiam(c) == QLt(c.barrel_diam_cm, Q0) \/ QLt(QInt(10000), c.barrel_diam_cm)
BadDistances(c) ==
  \/ QLe(c.empty_dist_cm, Q0)
  \/ QLe(c.full_dist_cm, Q0)
  \/ QLe(c.empty_dist_cm, c.full_dist_cm)
BadAlertLow(c) == QLe(c.tg_alert_low, Q0) \/ QLe(QInt(100), c.tg_alert_low)
BadAlertHigh(c, lowAfter) ==
  \/ QLe(c.tg_alert_high, Q0)
  \/ QLt(QInt(100), c.tg_alert_high)
  \/ QLe(c.tg_alert_high, lowAfter)

\* bool sanitizeConfig(Config &c): c as it leaves it and the value returned,
\* which is true as soon as one test fired, whatever the value it assigned
sanitizeConfig(c) ==
  LET low == IF BadAlertLow(c) THEN QInt(20) ELSE c.tg_alert_low
  IN  [c |-> [c EXCEPT
                !.trig_pin = IF BadU8(@) THEN 14 ELSE @,
                !.echo_pin = IF BadU8(@) THEN 12 ELSE @,
                !.ds18_pin = IF BadU8(@) THEN 2 ELSE @,
                !.avg_samples = IF BadAvgSamples(c) THEN 10 ELSE @,
                !.measure_sec = IF BadMeasureSec(c) THEN 60 ELSE @,
                !.mqtt_port = IF @ = 0 THEN 1883 ELSE @,
                !.barrel_diam_cm = IF BadDiam(c) THEN QInt(51) ELSE @,
                !.empty_dist_cm = IF BadDistances(c) THEN QInt(110) ELSE @,
                !.full_dist_cm = IF BadDistances(c) THEN QInt(25) ELSE @,
                !.tg_alert_low = low,
                !.tg_alert_high = IF BadAlertHigh(c, low) THEN QInt(95) ELSE @,
                !.device_name = IF @ = "" THEN "watersensor" ELSE @,
                !.mqtt_topic = IF @ = "" THEN "watersensor" ELSE @],
       changed |->
         \/ BadU8(c.trig_pin) \/ BadU8(c.echo_pin) \/ BadU8(c.ds18_pin)
         \/ BadAvgSamples(c) \/ BadMeasureSec(c) \/ c.mqtt_port = 0
         \/ BadDiam(c) \/ BadDistances(c) \/ BadAlertLow(c)
         \/ BadAlertHigh(c, low)
         \/ c.device_name = "" \/ c.mqtt_topic = ""]

\* saveConfig(c) and loadConfig(c) up to their sanitizeConfig(c) call: the
\* configuration in RAM is sanitized in place
SanitizeConfig ==
  /\ pc = "idle"
  /\ \E r \in {sanitizeConfig(cfg)} :
       /\ cfg' = r.c
       /\ ret' = [op |-> "sanitize", path |-> "", n |-> 0, val |-> r.changed,
                  c0 |-> cfg]
  /\ UNCHANGED <<fs, sens, pc, wr, out, appended, was, snap, tg, tm>>
  /\ UNCHANGED restoreVars
  /\ UNCHANGED trendVars
  /\ UNCHANGED measureVars

\* configurations as the console's set command and a stored config.json can
\* leave them in RAM: each field at, inside and outside its limits
ConfigInputs ==
  {[configDefaults EXCEPT !.trig_pin = tp, !.avg_samples = av,
                          !.measure_sec = ms, !.empty_dist_cm = QInt(d[1]),
                          !.full_dist_cm = QInt(d[2]),
                          !.tg_alert_low = QInt(al[1]),
                          !.tg_alert_high = QInt(al[2]), !.device_name = dn] :
     tp \in {0, 14}, av \in {0, 1, 10, 11}, ms \in {9, 10, 3600, 3601},
     d \in {<<110, 25>>, <<25, 110>>, <<50, 50>>, <<0, 25>>, <<110, 0>>},
     al \in {<<20, 95>>, <<0, 95>>, <<100, 50>>, <<50, 30>>, <<20, 101>>,
             <<20, 100>>, <<94, 50>>, <<95, 50>>, <<97, 99>>, <<97, 50>>,
             <<99, 0>>},
     dn \in {"", "barrel"}}

InitConfig ==
  /\ fs = [q \in Paths |-> Absent]
  /\ sens = NoSens
  /\ InitCore
  /\ cfg \in ConfigInputs
  /\ tg = NoTg
  /\ tm = NoTimers

NextConfig == SanitizeConfig

SpecConfig == InitConfig /\ [][NextConfig]_vars

\* ------------------------------------------------------ Telegram alerts
\* the margin a reading must recover by before an alert is armed again
ALERT_HYST == QInt(5)

\* tgSetup(c): Telegram is enabled when it is switched on and has a token
tgSetup ==
  /\ pc = "idle"
  /\ tg.bootPhase
  /\ tg' = [tg EXCEPT !.enabled = IF ~cfg.tg_en \/ cfg.tg_token < 10
                                  THEN @ ELSE TRUE]
  /\ ret' = Ret("tg_setup", "", 0, 0)
  /\ UNCHANGED <<fs, sens, pc, wr, out, appended, was, snap, cfg, tm>>
  /\ UNCHANGED restoreVars
  /\ UNCHANGED trendVars
  /\ UNCHANGED measureVars

\* setup() has made its first measurement: bootPhase = false
EndBoot ==
  /\ pc = "idle"
  /\ tg.bootPhase
  /\ tg' = [tg EXCEPT !.bootPhase = FALSE]
  /\ ret' = Ret("boot_done", "", 0, 0)
  /\ UNCHANGED <<fs, sens, pc, wr, out, appended, was, snap, cfg, tm>>
  /\ UNCHANGED restoreVars
  /\ UNCHANGED trendVars
  /\ UNCHANGED measureVars

\* serialSetConfig(key, value) for the alert switches: "ta" sets both
serialSetConfig(key, bv) ==
  /\ pc = "idle"
  /\ cfg' = [cfg EXCEPT
               !.tg_alert_low_en = IF key \in {"ta", "tal"} THEN bv ELSE @,
               !.tg_alert_high_en = IF key \in {"ta", "tah"} THEN bv ELSE @]
  /\ ret' = Ret("set", key, 0, bv)
  /\ UNCHANGED <<fs, sens, pc, wr, out, appended, was, snap, tg, tm>>
  /\ UNCHANGED restoreVars
  /\ UNCHANGED trendVars
  /\ UNCHANGED measureVars

\* mutant: the low alert is armed again as soon as the level is back at the
\* threshold
AlertLowRecovered_NoMargin(c, s) == QLe(c.tg_alert_low, s.level_pct)

\* s.level_pct >= c.tg_alert_low + 5.0f
AlertLowRecovered(c, s) == QLe(QAdd(c.tg_alert_low, ALERT_HYST), s.level_pct)

\* s.level_pct <= c.tg_alert_high - 5.0f
AlertHighRecovered(c, s) == QLe(s.level_pct, QSub(c.tg_alert_high, ALERT_HYST))

\* if (!_tgEnabled || !s.valid) return
AlertsSkipped(t, s) == ~t.enabled \/ ~s.valid

\* tgCheckAlerts(c, s) on the flags t: the flags it leaves and the alerts it
\* sends, in the order of its statements
tgCheckAlerts(c, s, t) ==
  IF AlertsSkipped(t, s)
  THEN [low |-> t.alertLowSent, high |-> t.alertHighSent, sent |-> {}]
  ELSE
    LET l1 == IF ~c.tg_alert_low_en THEN FALSE ELSE t.alertLowSent
        h1 == IF ~c.tg_alert_high_en THEN FALSE ELSE t.alertHighSent
        sendLow == c.tg_alert_low_en /\ QLt(s.level_pct, c.tg_alert_low) /\ ~l1
        l2 == IF sendLow THEN TRUE
              ELSE IF AlertLowRecovered(c, s) THEN FALSE ELSE l1
        h2 == IF sendLow THEN FALSE ELSE h1
        sendHigh == c.tg_alert_high_en /\ QLt(c.tg_alert_high, s.level_pct)
                    /\ ~h2
        h3 == IF sendHigh THEN TRUE
              ELSE IF AlertHighRecovered(c, s) THEN FALSE ELSE h2
        l3 == IF sendHigh THEN FALSE ELSE l2
    IN  [low |-> l3, high |-> h3,
         sent |-> (IF sendLow THEN {"low"} ELSE {})
                    \cup (IF sendHigh THEN {"high"} ELSE {})]

\* history: what became of an alert of one kind over a check that ran on a
\* valid reading: sentSelf and sentOther are the alerts the check sent, off
\* and recovered what the configuration and the reading were, and lowKind
\* tells the low alert, which the check handles before the high one, so that
\* a high alert sent by the same check comes after it
SinceAfter(since, off, recovered, sentSelf, sentOther, lowKind) ==
  IF sentSelf /\ ~(lowKind /\ sentOther) THEN "sent"
  ELSE IF since = "none" /\ ~sentSelf THEN "none"
  ELSE IF sentSelf \/ off \/ recovered \/ sentOther THEN "reset"
  ELSE since

\* if (!bootPhase) tgCheckAlerts(cfg, sens), on the alert state t: the state
\* it leaves with its history, the alerts sent, and whether the check ran
\* on a valid reading
AlertsAfter(c, s, t) ==
  LET r == IF t.bootPhase
           THEN [low |-> t.alertLowSent, high |-> t.alertHighSent, sent |-> {}]
           ELSE tgCheckAlerts(c, s, t)
      ran == ~t.bootPhase /\ t.enabled /\ s.valid
  IN  [tg |-> [t EXCEPT
                 !.alertLowSent = r.low,
                 !.alertHighSent = r.high,
                 !.lowSince =
                   IF ~ran THEN @
                   ELSE SinceAfter(@, ~c.tg_alert_low_en,
                          QLe(QAdd(c.tg_alert_low, QInt(5)), s.level_pct),
                          "low" \in r.sent, "high" \in r.sent, TRUE),
                 !.highSince =
                   IF ~ran THEN @
                   ELSE SinceAfter(@, ~c.tg_alert_high_en,
                          QLe(s.level_pct, QSub(c.tg_alert_high, QInt(5))),
                          "high" \in r.sent, "low" \in r.sent, FALSE)],
       sent |-> r.sent, ran |-> ran]

\* doMeasureCallback() once doMeasure(cfg, sens) has left the reading s
doMeasureCallback(s) ==
  /\ pc = "idle"
  /\ sens' = s
  /\ \E a \in {AlertsAfter(cfg, s, tg)} :
       /\ tg' = a.tg
       /\ ret' = [op |-> "alerts", path |-> "", n |-> 0, val |-> a.sent,
                  t0 |-> tg, ran |-> a.ran]
  /\ UNCHANGED <<fs, pc, wr, out, appended, was, snap, cfg, tm>>
  /\ UNCHANGED restoreVars
  /\ UNCHANGED trendVars
  /\ UNCHANGED measureVars

\* the reading a cycle leaves, as far as the alerts read it
AlertReading(level, valid) ==
  [NoSens EXCEPT !.level_pct = QInt(level), !.valid = valid]

\* levels below, at and above each threshold and each recovery mark; an
\* invalid reading carries the level computed from the last good distance
AlertReadings ==
  {AlertReading(l, TRUE) : l \in {10, 20, 22, 25, 50, 90, 93, 96, 99}}
    \cup {AlertReading(l, FALSE) : l \in {10, 50, 99}}

\* configurations sanitizeConfig lets through: the default thresholds, and a
\* low threshold of 97 with the high one it then sets
AlertConfigs ==
  {[configDefaults EXCEPT !.tg_en = en, !.tg_token = tok,
                          !.tg_alert_low_en = le, !.tg_alert_high_en = he,
                          !.tg_alert_low = QInt(al[1]),
                          !.tg_alert_high = QInt(al[2])] :
     en \in BOOLEAN, tok \in {0, 46}, le \in BOOLEAN, he \in BOOLEAN,
     al \in {<<20, 95>>, <<97, 95>>}}

InitAlerts ==
  /\ fs = [q \in Paths |-> Absent]
  /\ sens = NoSens
  /\ InitCore
  /\ \E c \in AlertConfigs : cfg = sanitizeConfig(c).c
  /\ tg = NoTg
  /\ tm = NoTimers

NextAlerts ==
  \/ tgSetup
  \/ EndBoot
  \/ \E key \in {"ta", "tal", "tah"} : \E bv \in BOOLEAN :
       serialSetConfig(key, bv)
  \/ \E s \in AlertReadings : doMeasureCallback(s)

SpecAlerts == InitAlerts /\ [][NextAlerts]_vars

\* ------------------------------------------------------ control loop
MaxPasses == 3   \* passes of loop() followed

\* the interval of the hourly snapshot, in milliseconds
HOUR_MS == 3600000

\* unsigned long addition of d milliseconds
U32Add(a, d) ==
  LET lo == a.lo + d
  IN  U32((a.hi + (lo \div HALF)) % HALF, lo % HALF)

\* a - b in unsigned long arithmetic
U32Sub(a, b) ==
  LET borrow == IF a.lo < b.lo THEN 1 ELSE 0
  IN  U32((a.hi - b.hi - borrow + 2 * HALF) % HALF, (a.lo - b.lo + HALF) % HALF)

\* a >= k, k an unsigned long below 2^31
U32Ge(a, k) ==
  \/ a.hi > k \div HALF
  \/ a.hi = k \div HALF /\ a.lo >= k % HALF

\* a < b as unsigned longs
U32Lt(a, b) == a.hi < b.hi \/ (a.hi = b.hi /\ a.lo < b.lo)

\* mutant: the deadline last + interval is compared with now, without the
\* unsigned difference
TimerDue_Deadline(now, last, interval) ==
  LET lo == last.lo + interval
      dhi == last.hi + (lo \div HALF)
  IN  now.hi > dhi \/ (now.hi = dhi /\ now.lo >= lo % HALF)

\* now - tMeasure >= (unsigned long)cfg.measure_sec * 1000UL, and the same
\* test of tHourly against 3600000UL
TimerDue(now, last, interval) == U32Ge(U32Sub(now, last), interval)

\* (unsigned long)cfg.measure_sec * 1000UL
MeasureMs(c) == c.measure_sec * 1000

\* storageWrite(s) on a valid hourly ring f
HourlyWritten(f, s) ==
  WriteHeaderAt(WriteRecordAt(f, f.head, HistRecordOf(s)),
                AdvanceHeader([head |-> f.head, count |-> f.count], MAX_REC))

\* one pass of loop(), d milliseconds after the pass before read millis();
\* s is the reading doMeasure leaves if the pass measures
loop(d, s) ==
  /\ pc = "idle"
  /\ ~tg.bootPhase
  /\ tm.passes < MaxPasses
  /\ RingFileOk(fs[HIST_FILE], MAX_REC)
  /\ \E now \in {U32Add(tm.millis, d)} :
       \E dueM \in {~tm.apMode /\ TimerDue(now, tm.tMeasure, MeasureMs(cfg))} :
         \E dueH \in {~tm.apMode /\ TimerDue(now, tm.tHourly, HOUR_MS)} :
           \E a \in {IF dueM THEN AlertsAfter(cfg, s, tg)
                     ELSE [tg |-> tg, sent |-> {}, ran |-> FALSE]} :
             /\ sens' = IF dueM THEN s ELSE sens
             /\ tg' = a.tg
             /\ fs' = IF dueH
                      THEN [fs EXCEPT ![HIST_FILE] = HourlyWritten(@, sens')]
                      ELSE fs
             /\ appended' = IF dueH
                            THEN [appended EXCEPT ![HIST_FILE] = Append(@, sens')]
                            ELSE appended
             /\ tm' = [tm EXCEPT
                         !.millis = now,
                         !.tMeasure = IF dueM THEN now ELSE @,
                         !.tHourly = IF dueH THEN now ELSE @,
                         !.passes = @ + 1,
                         !.fired = (IF dueM THEN {"measure"} ELSE {})
                                     \cup (IF dueH THEN {"hourly"} ELSE {}),
                         !.elapsedM =
                           (IF "measure" \in tm.fired THEN 0 ELSE @) + d,
                         !.elapsedH =
                           (IF "hourly" \in tm.fired THEN 0 ELSE @) + d,
                         !.wrapM = U32Lt(now, tm.tMeasure),
                         !.wrapH = U32Lt(now, tm.tHourly)]
             /\ ret' = [op |-> "loop", path |-> "", n |-> d, val |-> a.sent,
                        t0 |-> tg, ran |-> a.ran]
  /\ out' = <<>>
  /\ UNCHANGED <<pc, wr, was, snap, cfg>>
  /\ UNCHANGED restoreVars
  /\ UNCHANGED trendVars
  /\ UNCHANGED measureVars

\* the time between two passes: a millisecond, just under and at the shorter
\* measurement interval, and a pass held up for most of an hour
LoopSteps == {1, 9999, 10000, 3590000}

\* millis() when a pass last fired both timers: just after boot, and an hour,
\* ten seconds and a millisecond before it wraps
LoopClocks ==
  {U32(0, 5000), U32(65481, 4480), U32(65535, 55536), U32(65535, 65535)}

\* the device running in station or access-point mode on a blank store,
\* both timers just set, tHourly w milliseconds after tMeasure as setup()
\* sets them
InitControl ==
  /\ fs = [q \in Paths |->
             IF q = HIST_FILE THEN BlankFile(MAX_REC)
             ELSE IF q = HIST_RECENT_FILE THEN BlankFile(MAX_RECENT_REC)
             ELSE Absent]
  /\ sens = AlertReading(50, TRUE)
  /\ InitCore
  /\ \E ms \in {10, 60} :
       cfg = [configDefaults EXCEPT !.measure_sec = ms, !.tg_token = 46,
                                    !.tg_alert_low_en = TRUE]
  /\ tg = [NoTg EXCEPT !.bootPhase = FALSE, !.enabled = TRUE]
  /\ \E m \in LoopClocks : \E w \in {0, 40} : \E ap \in BOOLEAN :
       tm = [NoTimers EXCEPT !.millis = U32Add(m, w), !.tMeasure = m,
                             !.tHourly = U32Add(m, w), !.apMode = ap,
                             !.elapsedM = w]

NextControl == \E d \in LoopSteps : \E s \in {AlertReading(10, TRUE),
                                               AlertReading(50, TRUE)} :
                 loop(d, s)

SpecControl == InitControl /\ [][NextControl]_vars

\* ================================================================ claims
\* a ring file of capacity n as section 3 of the specification requires it
StructValid(f, n) ==
  /\ f.size = HDR_SIZE + n * REC_SIZE
  /\ Len(f.slots) = n
  /\ f.head \in 0..(n - 1)
  /\ f.count \in 0..n

\* a blank ring of capacity n: empty header, n never-written sentinels
IsBlank(f, n) ==
  /\ StructValid(f, n)
  /\ f.head = 0
  /\ f.count = 0
  /\ \A i \in 1..n : f.slots[i].ts = 0 /\ f.slots[i].temp_c = NaN

\* the ring record a reading is stored as
RecOfReading(s) ==
  [ts |-> s.timestamp, level |-> s.level_pct,
   volume |-> s.volume_liters, temp_c |-> s.temp_c]

RECURSIVE IsSubSeq(_, _)
\* a occurs in b in the same order, possibly with other elements in between
IsSubSeq(a, b) ==
  IF a = <<>> THEN TRUE
  ELSE IF b = <<>> THEN FALSE
  ELSE IF Head(a) = Head(b) THEN IsSubSeq(Tail(a), Tail(b))
  ELSE IsSubSeq(a, Tail(b))

\* C1: starting from an absent or blank store, whatever init, append,
\* readLatest, count and clear operations run, a ring file that exists has
\* 0 <= head < N, 0 <= count <= N and is exactly the 4-byte header followed
\* by N 16-byte slots.
C1_RingInvariant ==
  \A p \in RingPaths : fs[p] # Absent => StructValid(fs[p], MaxRecOf(p))

\* C1 witness: the hourly ring has just taken one append more than it holds
C1_Witness ==
  /\ ret.op = "append"
  /\ ret.path = HIST_FILE
  /\ Len(appended[HIST_FILE]) = MAX_REC + 1
  /\ fs[HIST_FILE].count = MAX_REC

\* C2: a power loss between the record write and the header write of an
\* append loses at most the record being appended: after the restart
\* readLatest still returns every record it returned before the append
\* began, unchanged and in the same order, also when the ring was full.
C2_CrashKeepsOlderRecords ==
  (ret.op = "crash" /\ was[ret.path] = "ok") =>
    IsSubSeq(snap, ReadRecords(fs[ret.path], MaxRecOf(ret.path), MaxRecOf(ret.path)))

\* C3: append on a structurally valid ring with header (h, c) first writes
\* the record into slot h and nothing else, and then writes the header
\* ((h+1) mod N, min(c+1, N)) and nothing else.
C3_AppendSteps ==
  [][ /\ (ret'.op = "append_rec" /\ was'[ret'.path] = "ok") =>
            LET p == ret'.path
                f == fs[p]
            IN  /\ fs' = [fs EXCEPT ![p] =
                            [f EXCEPT !.slots[f.head + 1] = RecOfReading(wr'.s)]]
                /\ pc' = "write_hdr"
      /\ (ret'.op = "append" /\ was[ret'.path] = "ok") =>
            LET p == ret'.path
                f == fs[p]
                n == MaxRecOf(p)
            IN  /\ fs' = [fs EXCEPT ![p] =
                            [f EXCEPT !.head  = (f.head + 1) % n,
                                      !.count = Min(f.count + 1, n)]]
                /\ f.slots[f.head + 1] = RecOfReading(wr.s)
    ]_vars

\* C3 witness: an append to a full hourly ring has completed
C3_Witness ==
  /\ ret.op = "append"
  /\ ret.path = HIST_FILE
  /\ was[HIST_FILE] = "ok"
  /\ Len(appended[HIST_FILE]) = MAX_REC + 1
  /\ fs[HIST_FILE].head = 1

\* C4: after k appends to a blank ring the header count is min(k, N) and
\* readLatest(n) returns the last min(n, k, N) appended records, newest
\* first; so readLatest(1) is the record just appended and after N+1
\* appends the first record is no longer returned.
C4_AppendReadRoundTrip ==
  \A p \in RingPaths :
    LET k == Len(appended[p])
        n == MaxRecOf(p)
    IN  /\ fs[p] # Absent => fs[p].count = Min(k, n)
        /\ (ret.op = "read" /\ ret.path = p) =>
             /\ out = [i \in 1..Min(ret.n, Min(k, n)) |->
                         RecOfReading(appended[p][k - i + 1])]
             /\ ret.val = Len(out)

\* C4 witness: a full read of the hourly ring after N+1 appends
C4_Witness ==
  /\ ret.op = "read"
  /\ ret.path = HIST_FILE
  /\ ret.n = MAX_REC
  /\ Len(appended[HIST_FILE]) = MAX_REC + 1
  /\ Len(out) = MAX_REC

\* C5: readLatest(n) on a structurally valid ring with header (head, count)
\* returns exactly min(n, count) records, the i-th (from 0) being slot
\* (head - 1 - i) mod N, and changes neither the header nor any slot.
C5_ReadLatest ==
  [][ (ret'.op = "read" /\ StructValid(fs[ret'.path], MaxRecOf(ret'.path))) =>
        LET p == ret'.path
            f == fs[p]
            n == MaxRecOf(p)
        IN  /\ fs' = fs
            /\ Len(out') = Min(ret'.n, f.count)
            /\ ret'.val = Len(out')
            /\ \A i \in 0..(Len(out') - 1) :
                 out'[i + 1] = f.slots[((f.head - 1 - i) % n) + 1]
    ]_vars

\* C5 witness: a read of a found ring that walks back across slot 0
C5_Witness ==
  /\ ret.op = "read"
  /\ ret.path = HIST_FILE
  /\ was[HIST_FILE] = "ok"
  /\ fs[HIST_FILE].head = 1
  /\ Len(out) = MAX_REC
  /\ out[2] = OldRec(MAX_REC - 1)

\* C6: init leaves a store of correct size and valid header exactly as it
\* is, however often it runs, and turns a missing or invalid store into a
\* blank one (head 0, count 0, N sentinels with timestamp 0, no temperature).
C6_InitIdempotent ==
  [][ ret'.op = "init" =>
        \A p \in RingPaths :
          IF StructValid(fs[p], MaxRecOf(p))
          THEN fs'[p] = fs[p]
          ELSE IsBlank(fs'[p], MaxRecOf(p))
    ]_vars

\* C6 witness: init ran on a valid hourly ring that holds data
C6_Witness ==
  /\ ret.op = "init"
  /\ was[HIST_FILE] = "ok"
  /\ fs[HIST_FILE].count > 0
  /\ fs[HIST_FILE].slots[1] = OldRec(0)

\* C7: readLatest on a file of the wrong size, or whose header has
\* head >= N or count > N, returns 0 records and leaves a blank,
\* structurally valid ring.
C7_ReadCorruptHeals ==
  [][ (/\ ret'.op = "read"
       /\ fs[ret'.path] # Absent
       /\ ~StructValid(fs[ret'.path], MaxRecOf(ret'.path))) =>
        /\ out' = <<>>
        /\ ret'.val = 0
        /\ IsBlank(fs'[ret'.path], MaxRecOf(ret'.path))
    ]_vars

\* C7 witness: a read has just found the hourly file invalid
C7_Witness ==
  /\ ret.op = "read"
  /\ ret.path = HIST_FILE
  /\ ret.n > 0
  /\ was[HIST_FILE] = "bad"
  /\ out = <<>>
  /\ IsBlank(fs[HIST_FILE], MAX_REC)

\* C8: init, append, readLatest and count each self-heal: when the file was
\* missing, of the wrong size or had a header out of range as the operation
\* began, the store is structurally valid when the operation has returned.
C8_EveryOperationHeals ==
  /\ ret.op = "init" =>
       \A p \in RingPaths :
         was[p] # "ok" => StructValid(fs[p], MaxRecOf(p))
  /\ (ret.op \in {"append", "read", "count"} /\ was[ret.path] # "ok") =>
       StructValid(fs[ret.path], MaxRecOf(ret.path))


\* C9: a restore whose upload is structurally invalid (its byte count is
\* not header + N records, or its header has head >= N or count > N) is
\* answered with an error and leaves the existing store file as it was.
C9_RestoreRejectsInvalid ==
  (/\ ret.op = "restore"
   /\ req.payload # Absent
   /\ ~StructValid(req.payload, MaxRecOf(req.path))) =>
     /\ resp.code = 400
     /\ resp.err # ""
     /\ fs[req.path] = req.dst0

\* C9 witness: an upload of the right size with head = N was rejected and
\* the hourly ring still holds its data
C9_Witness ==
  /\ ret.op = "restore"
  /\ req.path = HIST_FILE
  /\ req.payload = FileWith(MAX_REC, MAX_REC, 0)
  /\ resp.err = "invalid_history_file"
  /\ fs[HIST_FILE] = StoredFile(MAX_REC)

\* C10: storageReplaceRingFile validates the candidate before it touches
\* dst; it returns true only if dst is then a structurally valid ring file
\* with the candidate's content; after a failed rename it succeeds only if
\* the copied dst passes validation, and tmp is gone only on success.
C10_ReplaceSafe ==
  pc = "replaced" =>
    LET dst == rp.path
        tmp == TmpOf(rp.path)
        n   == MaxRecOf(rp.path)
    IN  /\ ~StructValid(rp.tmp0, n) => (~rp.ret /\ fs[dst] = rp.dst0)
        /\ rp.ret => (StructValid(fs[dst], n) /\ fs[dst] = rp.tmp0)
        /\ rp.ret <=> fs[tmp] = Absent
        /\ ~rp.ret => fs[tmp] = rp.tmp0

\* C10 witness: the rename failed and the copy fallback succeeded
C10_Witness ==
  /\ pc = "replaced"
  /\ rp.how = "copied"
  /\ rp.ret
  /\ rp.dst0 = StoredFile(MAX_REC)
  /\ fs[HIST_FILE] = FileWith(MAX_REC, MAX_REC - 1, MAX_REC)

\* C11: after the full clear both rings are blank (head 0, count 0, every
\* slot a sentinel), a readLatest that follows on either ring returns no
\* record, and the first trend computation after the clear is computed
\* anew instead of being served from the cached snapshot.
C11_ClearBlanksAll ==
  [][ /\ ret'.op = "clear" =>
            \A p \in RingPaths : IsBlank(fs'[p], MaxRecOf(p))
      /\ (ret.op = "clear" /\ ret'.op = "read") =>
            (ret'.val = 0 /\ out' = <<>>)
      /\ (cleared /\ ret'.op = "trend") => ret'.val = 0
    ]_vars

\* C11 witness: a trend snapshot was cached for the current reading, the
\* history was then cleared, and the trend of the same reading recomputed
C11_Witness ==
  /\ ret.op = "trend"
  /\ ret.val = 0
  /\ ~cleared
  /\ sens.timestamp = MaxTs
  /\ trendCacheForTs = MaxTs
  /\ trendCache.ok
  /\ ret.scan.hcnt = 0
  /\ ret.scan.rcnt = 0
  /\ \A p \in RingPaths : IsBlank(fs[p], MaxRecOf(p))
  /\ appended = [p \in RingPaths |-> <<>>]

\* the number of elements of seq that satisfy x < v, and x <= v
CountBelow(seq, v)  == Cardinality({i \in 1..Len(seq) : QLt(seq[i], v)})
CountAtMost(seq, v) == Cardinality({i \in 1..Len(seq) : QLe(seq[i], v)})

\* the j-th smallest value of seq (1 <= j <= Len(seq))
KthSmallest(seq, j) ==
  CHOOSE v \in {seq[i] : i \in 1..Len(seq)} :
    CountBelow(seq, v) < j /\ CountAtMost(seq, v) >= j

\* the median as a textbook defines it
TextbookMedian(seq) ==
  LET k == Len(seq) IN
  IF k % 2 = 1 THEN KthSmallest(seq, (k + 1) \div 2)
  ELSE QDiv(QAdd(KthSmallest(seq, k \div 2), KthSmallest(seq, (k \div 2) + 1)),
            QInt(2))

\* the echoes of raw that are physically plausible, in the order taken
RECURSIVE PlausibleOnly(_)
PlausibleOnly(raw) ==
  IF raw = <<>> THEN <<>>
  ELSE IF QLt(Q0, Head(raw)) /\ QLt(Head(raw), QInt(500))
       THEN <<Head(raw)>> \o PlausibleOnly(Tail(raw))
       ELSE PlausibleOnly(Tail(raw))

\* C18: whenever RangeSampler has accepted k >= 1 samples, the distance it
\* returns is the textbook median of those k values: the middle one of the
\* sorted values for odd k, the mean of the two middle ones for even k.
C18_Median ==
  (ret.op = "sample" /\ Len(md.buf) >= 1) => md.res = TextbookMedian(md.buf)

\* C18 witness: an even number of accepted samples, taken in descending
\* order, whose two middle values differ
C18_Witness ==
  /\ ret.op = "sample"
  /\ Len(md.buf) = 2
  /\ QLt(md.buf[2], md.buf[1])
  /\ QLt(md.buf[2], md.res)
  /\ QLt(md.res, md.buf[1])

\* C19: one invocation of RangeSampler takes at most min(avg_samples, 30)
\* pulse-echo measurements, aggregates exactly the echoes that neither
\* timed out nor were <= 0 or >= 500, and returns invalid (-1) when none
\* was accepted.
C19_SamplerFilter ==
  /\ Len(md.raw) <= Min(md.avg, SENSOR_MAX_SAMPLES)
  /\ md.buf = PlausibleOnly(md.raw)
  /\ ret.op = "sample" =>
       /\ Len(md.raw) = Min(md.avg, SENSOR_MAX_SAMPLES)
       /\ IF PlausibleOnly(md.raw) = <<>>
          THEN md.res = QInt(-1)
          ELSE md.res = TextbookMedian(PlausibleOnly(md.raw))

\* C19 witness: more samples configured than the buffer holds, an echo at
\* 500 cm or more rejected, and a call in which no sample was accepted
C19_Witness ==
  /\ ret.op = "sample"
  /\ md.avg > SENSOR_MAX_SAMPLES
  /\ Len(md.raw) = SENSOR_MAX_SAMPLES
  /\ md.raw[1] = QInt(-1)
  /\ \A i \in 2..Len(md.raw) : QLe(QInt(500), md.raw[i])
  /\ md.res = QInt(-1)

\* the percentage section 4.2 of the specification prescribes for distance d
SpecPct(c, d) ==
  LET x == QMul(QDiv(QSub(c.empty_dist_cm, d),
                     QSub(c.empty_dist_cm, c.full_dist_cm)), QInt(100))
  IN  QMax(Q0, QMin(QInt(100), x))

\* full < empty
CalibrationValid(c) == QLt(c.full_dist_cm, c.empty_dist_cm)

\* full < d < empty
Between(c, d) == QLt(c.full_dist_cm, d) /\ QLt(d, c.empty_dist_cm)

\* C15 as claimed: for valid calibration computeLevel yields
\* pct = clamp((empty - d)/(empty - full) x 100, 0, 100) for whatever
\* distance it is given; between the marks the result lies strictly
\* between 0 and 100 and strictly decreases in d.
C15_LevelFormulaAnyDistance ==
  (ret.op = "level" /\ CalibrationValid(lv.c)) =>
    /\ sens.level_pct = SpecPct(lv.c, lv.d)
    /\ Between(lv.c, lv.d) =>
         (QLt(Q0, sens.level_pct) /\ QLt(sens.level_pct, QInt(100)))
    /\ (lv.pc = lv.c /\ Between(lv.c, lv.pd) /\ Between(lv.c, lv.d)
          /\ QLt(lv.pd, lv.d)) => QLt(sens.level_pct, lv.ppct)

\* C15 amended: the same for every valid distance d > 0 (a distance of 0
\* or less marks an invalid reading, whose percentage is 0)
C15_LevelFormula ==
  (ret.op = "level" /\ CalibrationValid(lv.c) /\ QLt(Q0, lv.d)) =>
    /\ sens.level_pct = SpecPct(lv.c, lv.d)
    /\ Between(lv.c, lv.d) =>
         (QLt(Q0, sens.level_pct) /\ QLt(sens.level_pct, QInt(100)))
    /\ (lv.pc = lv.c /\ Between(lv.c, lv.pd) /\ Between(lv.c, lv.d)
          /\ QLt(lv.pd, lv.d)) => QLt(sens.level_pct, lv.ppct)

\* C15 witness: empty = 110, full = 25: d = 50 and then d = 67.5, which
\* gives 50.0
C15_Witness ==
  /\ ret.op = "level"
  /\ lv.c.empty_dist_cm = QInt(110)
  /\ lv.c.full_dist_cm = QInt(25)
  /\ lv.pc = lv.c
  /\ lv.pd = QInt(50)
  /\ lv.d = Q(135, 2)
  /\ sens.level_pct = QInt(50)
  /\ QLt(sens.level_pct, lv.ppct)

\* C16: in every Reading 0 <= volume <= total and free = total - volume;
\* with a diameter of 0 total, volume and free are all zero and the
\* percentage is computed all the same.
C16_VolumeBounds ==
  /\ QLe(Q0, sens.volume_liters)
  /\ QLe(sens.volume_liters, sens.total_liters)
  /\ sens.free_liters = QSub(sens.total_liters, sens.volume_liters)
  /\ QAdd(sens.volume_liters, sens.free_liters) = sens.total_liters
  /\ QLe(Q0, sens.free_liters)
  /\ (ret.op = "level" /\ lv.c.barrel_diam_cm = Q0) =>
       /\ sens.total_liters = Q0
       /\ sens.volume_liters = Q0
       /\ sens.free_liters = Q0
       /\ (CalibrationValid(lv.c) /\ QLt(Q0, lv.d)) =>
            sens.level_pct = SpecPct(lv.c, lv.d)

\* C16 witness: a half-full barrel of known diameter, and one of unknown
\* diameter whose percentage is computed
C16_Witness ==
  /\ ret.op = "level"
  /\ lv.c.barrel_diam_cm = Q0
  /\ lv.pc.barrel_diam_cm = QInt(51)
  /\ sens.level_pct = QInt(50)
  /\ lv.ppct = QInt(50)
  /\ sens.total_liters = Q0

\* the capacity section 4.2 prescribes: pi r^2 (empty - full) / 1000, or 0
\* when the diameter is unknown
SpecTotal(c) ==
  IF QLt(Q0, c.barrel_diam_cm)
  THEN QDiv(QMul(QMul(PI, QMul(c.barrel_diam_cm, c.barrel_diam_cm)),
                 QSub(c.empty_dist_cm, c.full_dist_cm)), QInt(4000))
  ELSE Q0

\* the smoothing factor section 4.2 prescribes: ema_alpha within [0.01, 1]
SpecAlpha(c) == QMax(Q(1, 100), QMin(QInt(1), c.ema_alpha))

\* |a - b|
QDist(a, b) == IF QLt(a, b) THEN QSub(b, a) ELSE QSub(a, b)

\* C12: a cycle whose distance is invalid marks the Reading invalid,
\* leaves the smoothing state as it was, and computes level and volume from
\* the last smoothed distance, or sets them all to zero when no valid
\* sample was ever smoothed.
C12_InvalidHoldsEstimate ==
  (ret.op = "measure_level" /\ QLt(cyc.dist, Q0)) =>
    /\ ~sens.valid
    /\ ema = cyc.old
    /\ IF cyc.seen = 0
       THEN /\ sens.level_pct = Q0
            /\ sens.volume_liters = Q0
            /\ sens.free_liters = Q0
            /\ sens.total_liters = Q0
       ELSE CalibrationValid(cyc.c) =>
              /\ sens.distance_cm = cyc.old
              /\ sens.level_pct = SpecPct(cyc.c, cyc.old)
              /\ sens.total_liters = SpecTotal(cyc.c)
              /\ sens.volume_liters =
                   QDiv(QMul(SpecTotal(cyc.c), SpecPct(cyc.c, cyc.old)), QInt(100))

\* C12 witness: both echoes of a cycle timed out after an earlier cycle had
\* measured 34.3 cm, and the level is still the one of 34.3 cm
C12_Witness ==
  /\ ret.op = "measure_level"
  /\ cyc.dist = QInt(-1)
  /\ cyc.seen = 1
  /\ ema = Q(343, 10)
  /\ ~sens.valid
  /\ sens.distance_cm = Q(343, 10)
  /\ QLt(QInt(80), sens.level_pct)
  /\ QLt(Q0, sens.volume_liters)

\* C13: the first valid distance sets the smoothing state to exactly that
\* distance; every later valid distance d sets it to a*d + (1-a)*old with
\* a = ema_alpha clamped to [0.01, 1.0]; so for a = 1.0 the state is d, and
\* for a = 0.01 it moves by at most 1% of (d - old).
C13_Smoothing ==
  (ret.op = "measure_level" /\ ~QLt(cyc.dist, Q0)) =>
    LET a == SpecAlpha(cyc.c)
        d == cyc.dist
    IN  IF cyc.seen = 1
        THEN ema = d
        ELSE /\ ema = QAdd(QMul(a, d), QMul(QSub(QInt(1), a), cyc.old))
             /\ a = QInt(1) => ema = d
             /\ a = Q(1, 100) =>
                  QLe(QMul(QInt(100), QDist(ema, cyc.old)), QDist(d, cyc.old))

\* C13 witness: a configured factor of 0 is raised to 0.01 and the state
\* moves from 34.3 cm towards 480.2 cm by a hundredth of the difference
C13_Witness ==
  /\ ret.op = "measure_level"
  /\ cyc.c.ema_alpha = Q0
  /\ cyc.seen = 2
  /\ cyc.old = Q(343, 10)
  /\ cyc.dist = Q(4802, 10)
  /\ ema = Q(38759, 1000)

\* C14: once a valid sample has initialized the smoothing state, it is
\* never negative (so never back at the uninitialized value), whatever
\* valid and invalid cycles and smoothing factors follow, and every update
\* lies between the previous state and the new sample.
C14_SmoothingInvariant ==
  /\ cyc.seen > 0 => QLe(Q0, ema)
  /\ cyc.seen = 0 => ema = NoEma
  /\ (ret.op = "measure_level" /\ ~QLt(cyc.dist, Q0) /\ cyc.seen > 1) =>
       /\ QLe(QMin(cyc.old, cyc.dist), ema)
       /\ QLe(ema, QMax(cyc.old, cyc.dist))

\* C14 witness: a factor above the range, the sample below the state, and
\* an invalid cycle in between
C14_Witness ==
  /\ ret.op = "measure_level"
  /\ cyc.c.ema_alpha = Q(3, 2)
  /\ cyc.seen = 2
  /\ cyc.old = Q(4802, 10)
  /\ cyc.dist = Q(343, 10)
  /\ ema = Q(343, 10)

\* C17: with empty_dist <= full_dist every cycle runs to its end and the
\* Reading's level percentage, volume, free volume and total capacity are
\* all zero, whatever the distance.
C17_MisconfiguredZero ==
  (ret.op \in {"measure_level", "measure_done"} /\ ~CalibrationValid(cyc.c)) =>
    /\ sens.level_pct = Q0
    /\ sens.volume_liters = Q0
    /\ sens.free_liters = Q0
    /\ sens.total_liters = Q0
    /\ ret.op = "measure_level" => pc = "stamping"
    /\ ret.op = "measure_done" => (cyc.inflight = 0 /\ sens.timestamp > 0)

\* C17 witness: a cycle with the marks exchanged measured a distance that
\* lies between them and has been stamped
C17_Witness ==
  /\ ret.op = "measure_done"
  /\ cyc.c.empty_dist_cm = QInt(25)
  /\ cyc.c.full_dist_cm = QInt(110)
  /\ cyc.dist = Q(343, 10)
  /\ sens.valid
  /\ sens.distance_cm = Q(343, 10)
  /\ sens.level_pct = Q0

TrivialStats ==
  [ok |-> FALSE, used24_l |-> NaN, used7d_l |-> NaN, rate24_lpd |-> NaN,
   rate7d_lpd |-> NaN, span24_s |-> 0, span7d_s |-> 0, days_left |-> NaN,
   eta_empty_ts |-> 0]

\* a ring holds a record the scan would accept for a clock at now
HoldsHistory(f, now) ==
  \E i \in 1..Len(f.slots) :
    f.slots[i].ts # 0 /\ f.slots[i].ts <= now /\ VolumeOk(f.slots[i].volume)

\* C24: a reading with timestamp 0, total capacity <= 0 or a negative
\* volume gets the trivial snapshot (not ok, usage, rates and days-left
\* absent, ETA 0) whatever the rings hold, and the rings are not read.
C24_TrivialSnapshot ==
  (ret.op = "trend" /\ (sens.timestamp = 0 \/ QLe(sens.total_liters, Q0)
                        \/ QLt(sens.volume_liters, Q0)))
    => (StatsOf(trendCache) = TrivialStats /\ ret.n = 0)

\* C24 witness: the trend of a timestamped reading without total capacity
\* was asked for over rings that hold usable history
C24_Witness ==
  /\ ret.op = "trend"
  /\ sens.timestamp = SyncedNow
  /\ sens.total_liters = Q0
  /\ HoldsHistory(fs[HIST_FILE], SyncedNow - RECENT_S - 1)
  /\ HoldsHistory(fs[HIST_RECENT_FILE], SyncedNow)
  /\ StatsOf(trendCache) = TrivialStats

\* the two records of the scenario: 100 L a day ago, 90 L now
DayApart(now) ==
  <<[ts |-> now - 86400, level |-> QInt(50), volume |-> QInt(100), temp_c |-> NaN],
    [ts |-> now, level |-> QInt(50), volume |-> QInt(90), temp_c |-> NaN]>>

\* C25 as claimed: with exactly two records in range, 24 hours apart, of
\* 100 L then 90 L, the trend reports used24 = 10.0 and rate24 = 10.0 L/day.
C25_DayApartUsage ==
  (ret.op = "trend" /\ trendCache.ok /\ ret.scan.fed = DayApart(sens.timestamp))
    => (trendCache.used24_l = QInt(10) /\ trendCache.rate24_lpd = QInt(10))

\* C25 as amended: with exactly two records in range, 24 hours apart, of
\* 100 L then 90 L, the pair is a gap of more than 6 hours and is ignored:
\* the trend reports used24 = 0.0 and rate24 = 0.0 L/day over a span of
\* 86400 s.
C25_DayApartIgnored ==
  (ret.op = "trend" /\ trendCache.ok /\ ret.scan.fed = DayApart(sens.timestamp))
    => /\ trendCache.used24_l = Q0
       /\ trendCache.rate24_lpd = Q0
       /\ trendCache.span24_s = 86400

\* C25 witness: the scan of a half-full tank met the two records only
C25_Witness ==
  /\ ret.op = "trend"
  /\ sens.timestamp = SyncedNow
  /\ QLt(Q0, sens.volume_liters)
  /\ trendCache.ok
  /\ ret.scan.fed = DayApart(SyncedNow)
  /\ trendCache.used24_l = Q0

\* the rate the estimate is to be made with, NaN for none: the 24h rate when
\* its span is >= 6 h and it exceeds 0.2, else the 7d rate when its span is
\* >= 24 h and it exceeds 0.2
SpecChosenRate(tc) ==
  IF tc.rate24_lpd # NaN /\ tc.span24_s >= 21600 /\ QLt(Q(2, 10), tc.rate24_lpd)
  THEN tc.rate24_lpd
  ELSE IF tc.rate7d_lpd # NaN /\ tc.span7d_s >= 86400
          /\ QLt(Q(2, 10), tc.rate7d_lpd)
  THEN tc.rate7d_lpd
  ELSE NaN

\* days-left and ETA-empty for volume v at rate r, from now
SpecEstimate(tc, now, v, r) ==
  /\ tc.days_left = Round10(QDiv(v, r))
  /\ tc.eta_empty_ts = now + Trunc(QMul(QDiv(v, r), QInt(86400)))

\* C26 as claimed: days-left and ETA-empty are set exactly when a rate was
\* chosen (the 24h rate if span >= 6 h and rate > 0.2, else the 7d rate if
\* span >= 24 h and rate > 0.2), and are absent otherwise.
C26_EstimateIffRate ==
  (ret.op = "trend" /\ trendCache.ok)
    => LET r == SpecChosenRate(trendCache) IN
       /\ (r # NaN) <=> (trendCache.days_left # NaN)
       /\ (r # NaN) <=> (trendCache.eta_empty_ts # 0)

\* C26 as amended: days-left and ETA-empty are set exactly when a rate was
\* chosen and the current volume is above 0; then days-left is volume / rate
\* rounded to a tenth and ETA-empty is now plus the whole seconds of
\* volume / rate days; otherwise days-left is absent and ETA-empty is 0.
C26_EstimateFromRate ==
  (ret.op = "trend" /\ trendCache.ok)
    => LET r == SpecChosenRate(trendCache) IN
       IF r # NaN /\ QLt(Q0, sens.volume_liters)
       THEN SpecEstimate(trendCache, sens.timestamp, sens.volume_liters, r)
       ELSE trendCache.days_left = NaN /\ trendCache.eta_empty_ts = 0

\* C26 witness: the 24h rate is unusable (no usage over a span of a day),
\* the 7d rate of 8.9 L/day over 27 h is chosen and the 50 L left last 5.6
\* days
C26_Witness ==
  /\ ret.op = "trend"
  /\ sens.timestamp = SyncedNow
  /\ sens.volume_liters = QInt(50)
  /\ trendCache.rate24_lpd = Q0
  /\ trendCache.span24_s = 86400
  /\ trendCache.rate7d_lpd = Q(89, 10)
  /\ trendCache.span7d_s = 27 * 3600
  /\ trendCache.days_left = Q(56, 10)
  /\ trendCache.eta_empty_ts = SyncedNow + 485393

\* C27: on a clock below 6 hours the trend holds no estimate (days-left
\* absent, ETA-empty 0) whatever the rings hold, and the starts of the three
\* windows lie between 0 and now.
C27_UnsyncedNoEstimate ==
  (ret.op = "trend" /\ sens.timestamp < 21600)
    => /\ trendCache.days_left = NaN
       /\ trendCache.eta_empty_ts = 0
       /\ \A w \in {DAY_S, WEEK_S, RECENT_S} :
            WindowStart(sens.timestamp, w) \in 0..sens.timestamp

\* C27 witness: on the unsynchronized clock the scan found usage at a rate
\* above 0.2 L/day
C27_Witness ==
  /\ ret.op = "trend"
  /\ sens.timestamp = UnsyncedNow
  /\ trendCache.ok
  /\ trendCache.rate24_lpd # NaN
  /\ QLt(Q(2, 10), trendCache.rate24_lpd)
  /\ Len(ret.scan.fed) >= 2
  /\ trendCache.days_left = NaN

\* what the adjacent pair (a, b) adds to the usage of the window starting at
\* since: its decrease, if 30 s <= dt <= 6 h, the decrease is above 0.3 and
\* both records lie inside the window
SpecContribution(a, b, since) ==
  IF /\ b.ts - a.ts >= 30
     /\ b.ts - a.ts <= 21600
     /\ QLt(QSub(b.volume, a.volume), Q(-3, 10))
     /\ a.ts >= since
     /\ b.ts >= since
  THEN QSub(a.volume, b.volume) ELSE Q0

RECURSIVE SpecUsage(_, _, _)
\* the usage of the first i records of the scan
SpecUsage(fed, i, since) ==
  IF i <= 1 THEN Q0
  ELSE QAdd(SpecUsage(fed, i - 1, since),
            SpecContribution(fed[i - 1], fed[i], since))

\* now less w, 0 for a clock below w
SpecSince(now, w) == IF now > w THEN now - w ELSE 0

\* C29: the usage of each window is the sum over the adjacent pairs of the
\* scan of the decreases of more than 0.3 between records 30 s to 6 h apart
\* that both lie inside the window; other pairs add nothing.
C29_PairFilter ==
  (ret.op = "trend" /\ ret.val = 0 /\ trendCache.ok)
    => LET fed == ret.scan.fed
           now == sens.timestamp
       IN  /\ trendCache.used24_l # NaN =>
                trendCache.used24_l =
                  Round10(SpecUsage(fed, Len(fed), SpecSince(now, 86400)))
           /\ trendCache.used7d_l # NaN =>
                trendCache.used7d_l =
                  Round10(SpecUsage(fed, Len(fed), SpecSince(now, 604800)))

\* C29 witness: a scan over a pair straddling the start of the 24h window,
\* a gap of 16 hours and a refill: 10 L used in the week, none in the day
C29_Witness ==
  /\ ret.op = "trend"
  /\ sens.timestamp = SyncedNow
  /\ Len(ret.scan.fed) = 4
  /\ ret.scan.fed[1].ts = SyncedNow - 27 * 3600
  /\ ret.scan.fed[2].ts = SyncedNow - 24 * 3600
  /\ ret.scan.fed[3].ts = SyncedNow - 8 * 3600
  /\ ret.scan.fed[4].ts = SyncedNow
  /\ trendCache.used24_l = Q0
  /\ trendCache.used7d_l = QInt(10)

\* pair i of the scan (records i and i + 1) added to the usage of the week
Contributes(fed, i, since) == SpecContribution(fed[i], fed[i + 1], since) # Q0

\* C30 as claimed: the pairs that contribute usage cover pairwise
\* non-overlapping time intervals, for any contents of the two rings.
C30_NoDoubleCounting ==
  (ret.op = "trend" /\ ret.val = 0 /\ trendCache.ok)
    => LET fed   == ret.scan.fed
           since == SpecSince(sens.timestamp, 604800)
       IN  \A i, j \in 1..(Len(fed) - 1) :
             (i # j /\ Contributes(fed, i, since) /\ Contributes(fed, j, since))
               => (fed[i + 1].ts <= fed[j].ts \/ fed[j + 1].ts <= fed[i].ts)

\* C23: a trend asked for a reading whose nonzero timestamp equals the key
\* of the cache returns the cached snapshot and reads neither ring; the
\* rings are read only when the timestamp differs from the key.
C23_CacheByTimestamp ==
  [][ ret'.op = "trend" =>
        /\ (sens.timestamp # 0 /\ sens.timestamp = trendCacheForTs)
             => /\ ret'.val = 1
                /\ ret'.n = 0
                /\ trendCache' = trendCache
                /\ fs' = fs
        /\ ret'.n > 0 => sens.timestamp # trendCacheForTs
        /\ sens.timestamp # trendCacheForTs
             => (ret'.val = 0 /\ trendCacheForTs' = sens.timestamp)
    ]_vars

\* C23 witness: a snapshot with an estimate, computed from the hourly
\* history, was served from the cache
C23_Witness ==
  /\ ret.op = "trend"
  /\ ret.val = 1
  /\ sens.timestamp = SyncedNow
  /\ trendCacheForTs = SyncedNow
  /\ trendCache.ok
  /\ trendCache.span7d_s > 0
  /\ trendCache.days_left # NaN

\* C28 as claimed: the snapshot computeTrend returns equals the snapshot an
\* uncached scan of the current reading and of the current contents of both
\* rings produces.
C28_CacheNeverStale ==
  ret.op = "trend" => StatsOf(trendCache) = StatsOf(TrendOf(fs, sens))

\* ------------------------------------------------ claims: the cycle's waits
\* C21 as claimed: when the temperature was requested and the conversion
\* did not complete within the wait, the reading's temperature is NaN; a
\* value is merged only when the conversion completed in time.
C21_TimeoutGivesNaN ==
  (ret.op = "measure_done" /\ cyc.ds18_dt /\ ~cyc.conv) => sens.temp_c = NaN

\* C22: every cycle that was started ends: it is stamped, the timestamp is
\* written once per cycle and by its last step, even when no echo returns
\* and the conversion never completes.
C22_CycleTerminates ==
  /\ [][ /\ sens'.timestamp # sens.timestamp => ret'.op = "measure_done"
         /\ ret'.op = "measure_done" =>
              /\ pc = "stamping"
              /\ pc' \in {"idle", "respond"}
              /\ cyc.inflight = 1
              /\ cyc'.inflight = 0
              /\ cyc'.cycles = cyc.cycles + 1
         /\ cyc'.inflight > cyc.inflight => ret'.op = "measure_start"
     ]_vars
  /\ (cyc.inflight = 1) ~> (cyc.inflight = 0)

\* a cycle ended although no echo returned and the conversion never
\* completed within the 250 ms
C22_Witness ==
  /\ ret.op = "measure_done"
  /\ cyc.inflight = 0
  /\ cyc.ds18_dt
  /\ QLt(cyc.dist, Q0)
  /\ cyc.tw = TEMP_WAIT_MS
  /\ ~cyc.conv

\* ------------------------------------------------------ event detection
\* a record the specification lets a reader use: written, volume not negative
SpecUsable(rec) == rec.ts # 0 /\ rec.volume # NaN /\ QLe(Q0, rec.volume)

\* the usable records of a read, oldest first
SpecChronological(rbuf) == SelectSeq(Reversed(rbuf), SpecUsable)

\* the change of volume from a to b, and its rate per hour
SpecDv(a, b) == QSub(b.volume, a.volume)
SpecRate(a, b) == QDiv(QMul(SpecDv(a, b), QInt(3600)), QInt(b.ts - a.ts))

\* the type the specification gives the pair of a and the record b after it
SpecEventType(a, b) ==
  IF b.ts - a.ts < 30 \/ b.ts - a.ts > 1200 THEN ""
  ELSE IF QLe(SpecDv(a, b), QInt(-4)) /\ QLe(SpecRate(a, b), QInt(-18))
  THEN "leak"
  ELSE IF QLe(QInt(6), SpecDv(a, b)) THEN "fill"
  ELSE IF QLe(SpecDv(a, b), QInt(-6)) THEN "draw"
  ELSE ""

\* C31: event detection compares each usable record of the recent ring with
\* the usable record before it and gives the pair the type leak when 30 s <=
\* dt <= 1200 s, dv <= -4 and the rate is at most -18 per hour, else fill
\* when dv >= 6, else draw when dv <= -6, else none; a pair with dt outside
\* [30 s, 1200 s] gets no type, and every event listed carries the type and
\* the timestamp of a pair that got one.
C31_PairClassification ==
  ret.op = "events" =>
    LET v == SpecChronological(ret.rbuf)
        p == ret.scan.pairs
    IN  /\ Len(p) = Max(Len(v) - 1, 0)
        /\ \A i \in 1..Len(p) :
             /\ p[i].prev = v[i]
             /\ p[i].rec = v[i + 1]
             /\ p[i].type = SpecEventType(v[i], v[i + 1])
        /\ \A k \in 1..Len(ret.val) :
             \E i \in 1..Len(p) :
               /\ p[i].type # ""
               /\ p[i].type = ret.val[k].type
               /\ p[i].rec.ts = ret.val[k].ts
        /\ (\E i \in 1..Len(p) : p[i].type # "") => ret.val # <<>>

\* a scan that met a fill, a leak and then a pair more than 20 min apart
\* whose volume fell by 6 L or more and gave no event
C31_Witness ==
  /\ ret.op = "events"
  /\ \E i \in 1..Len(ret.scan.pairs) : ret.scan.pairs[i].type = "fill"
  /\ \E i \in 1..Len(ret.scan.pairs) : ret.scan.pairs[i].type = "leak"
  /\ \E i \in 1..Len(ret.scan.pairs) :
       LET x == ret.scan.pairs[i] IN
       /\ x.rec.ts - x.prev.ts > 1200
       /\ QLe(SpecDv(x.prev, x.rec), QInt(-6))
       /\ x.type = ""
  /\ Len(ret.val) = 2

SpecEventOf(x) ==
  [ts |-> x.rec.ts, type |-> x.type, delta_l |-> SpecDv(x.prev, x.rec),
   rate_lph |-> SpecRate(x.prev, x.rec)]

\* the event l extended by the later event e of the same type
SpecMerged(l, e) ==
  [ts |-> e.ts, type |-> l.type, delta_l |-> QAdd(l.delta_l, e.delta_l),
   rate_lph |-> IF QLt(QAbs(l.rate_lph), QAbs(e.rate_lph)) THEN e.rate_lph
                ELSE l.rate_lph]

\* the list after the event e, as the specification keeps it
SpecListed(l, e) ==
  IF l # <<>> /\ l[Len(l)].type = e.type /\ e.ts >= l[Len(l)].ts
              /\ e.ts - l[Len(l)].ts <= 15 * 60
  THEN [l EXCEPT ![Len(l)] = SpecMerged(l[Len(l)], e)]
  ELSE IF Len(l) = MAX_EVS THEN Append(Tail(l), e)
  ELSE Append(l, e)

RECURSIVE SpecEventList(_, _)
\* the event list of the first i pairs of p, oldest first
SpecEventList(p, i) ==
  IF i = 0 THEN <<>>
  ELSE With(SpecEventList(p, i - 1),
            LAMBDA l : IF p[i].type = "" THEN l
                       ELSE SpecListed(l, SpecEventOf(p[i])))

\* C32: an event of the same type as the last listed one and at most 15 min
\* after it extends that event (its timestamp, the sum of the deltas, the
\* rate of larger magnitude) instead of being added; the list never holds
\* more than MAX_EVS events, a new event evicts the oldest of a full list,
\* and the response lists the events newest first.
C32_MergeAndCap ==
  ret.op = "events" =>
    LET evs == ret.scan.evs
        n   == Len(ret.scan.evs)
    IN  /\ n <= MAX_EVS
        /\ evs = SpecEventList(ret.scan.pairs, Len(ret.scan.pairs))
        /\ Len(ret.val) = n
        /\ \A k \in 1..n :
             /\ ret.val[k].ts = evs[n + 1 - k].ts
             /\ ret.val[k].type = evs[n + 1 - k].type
             /\ QLe(QAbs(QSub(ret.val[k].delta_l, evs[n + 1 - k].delta_l)),
                    Q(1, 20))
             /\ QLe(QAbs(QSub(ret.val[k].rate_lph, evs[n + 1 - k].rate_lph)),
                    Q(1, 20))

\* a scan that met two leaks 15 min apart and listed them as one event, with
\* the timestamp of the second, the sum of the deltas and the faster rate
C32_Witness ==
  /\ ret.op = "events"
  /\ Len(ret.scan.pairs) >= 2
  /\ ret.scan.pairs[1].type = "leak"
  /\ ret.scan.pairs[2].type = "leak"
  /\ ret.scan.pairs[2].rec.ts - ret.scan.pairs[1].rec.ts = 900
  /\ Len(ret.scan.evs) = 1
  /\ ret.scan.evs[1].ts = ret.scan.pairs[2].rec.ts
  /\ ret.scan.evs[1].delta_l = QAdd(SpecDv(ret.scan.pairs[1].prev,
                                           ret.scan.pairs[1].rec),
                                    SpecDv(ret.scan.pairs[2].prev,
                                           ret.scan.pairs[2].rec))
  /\ ret.scan.evs[1].rate_lph = SpecRate(ret.scan.pairs[1].prev,
                                         ret.scan.pairs[1].rec)
  /\ ret.scan.evs[1].rate_lph # SpecRate(ret.scan.pairs[2].prev,
                                         ret.scan.pairs[2].rec)

\* a scan whose third event found the list full: the first is gone and the
\* response lists the third before the second
C32_WitnessEvicted ==
  /\ ret.op = "events"
  /\ Len(ret.scan.pairs) = 3
  /\ \A i \in 1..3 : ret.scan.pairs[i].type # ""
  /\ Len(ret.val) = MAX_EVS
  /\ ret.val[1].ts = ret.scan.pairs[3].rec.ts
  /\ ret.val[2].ts = ret.scan.pairs[2].rec.ts
  /\ ret.scan.pairs[1].rec.ts # ret.scan.pairs[2].rec.ts

\* ------------------------------------------------------- sentinel records
\* the records of a read without the slots that were never written
Written(seq) == SelectSeq(seq, LAMBDA rec : rec.ts # 0)

\* C33: every reader of the ring logs passes over a record whose timestamp
\* is 0, whether or not the header counts its slot: the trend scan and the
\* event detection give what they give for the same logs without those
\* records, and no such record is fed to a usage pair, compared in an event
\* pair, listed in the history or written to the CSV export.
C33_SentinelSkipped ==
  /\ (ret.op = "trend" /\ ret.val = 0) =>
       /\ \A i \in 1..Len(ret.scan.fed) : ret.scan.fed[i].ts # 0
       /\ trendCache =
            StatsOf(TrendScan(sens,
                              Written(storageReadOut(fs, HIST_FILE, MAX_REC,
                                                     TREND_HBUF)),
                              Written(storageReadOut(fs, HIST_RECENT_FILE,
                                                     EV_REC, EV_REC))))
  /\ ret.op = "events" =>
       /\ \A i \in 1..Len(ret.scan.pairs) :
            ret.scan.pairs[i].prev.ts # 0 /\ ret.scan.pairs[i].rec.ts # 0
       /\ ret.val = EventsJson(EventScan(EventStart, Written(ret.rbuf),
                                         Len(Written(ret.rbuf))).evs)
  /\ ret.op = "history" =>
       /\ \A i \in 1..Len(ret.recs) : ret.recs[i].ts # 0
       /\ Len(ret.val) = Len(ret.recs)
  /\ ret.op = "export" =>
       /\ ret.recs = Written(OldestFirst(fs[HIST_FILE], MAX_REC))
       /\ Len(ret.val) = Len(ret.recs)

\* events detected in a recent ring whose header counts a slot that was
\* never written, between the two records of a leak
C33_Witness ==
  /\ ret.op = "events"
  /\ fs[HIST_RECENT_FILE].count = EV_REC
  /\ Len(ret.rbuf) = EV_REC
  /\ ret.rbuf[2] = blank
  /\ ret.rbuf[1].ts - ret.rbuf[3].ts = 600
  /\ \E k \in 1..Len(ret.val) :
       ret.val[k].type = "leak" /\ ret.val[k].ts = ret.rbuf[1].ts

\* an export of an hourly ring whose header counts a slot never written: one
\* row less than the header counts
C33_WitnessExport ==
  /\ ret.op = "export"
  /\ fs[HIST_FILE].count = MAX_REC
  /\ ret.n = MAX_REC - 1

\* a trend computed at the unsynchronized clock from logs with a slot never
\* written among the records read
C33_WitnessTrend ==
  /\ ret.op = "trend"
  /\ ret.val = 0
  /\ sens.timestamp = UnsyncedNow
  /\ ret.scan.hcnt + ret.scan.rcnt > Len(ret.scan.fed)
  /\ trendCache.ok
  /\ QLt(Q0, trendCache.used24_l)

\* ------------------------------------------------- records out of order
\* the records the recent ring holds after the appends app, oldest first
SpecRing(app) ==
  [k \in 1..Min(Len(app), EV_REC) |->
     HistRecordOf(app[Len(app) - Min(Len(app), EV_REC) + k])]

\* what the pair (a, b) adds to the usage since since: nothing when b is not
\* stamped later than a
SpecOrdered(a, b, since) ==
  IF b.ts <= a.ts THEN Q0 ELSE SpecContribution(a, b, since)

RECURSIVE SpecOrderedUsage(_, _, _)
\* the usage of the first i records of the scan
SpecOrderedUsage(fed, i, since) ==
  IF i <= 1 THEN Q0
  ELSE QAdd(SpecOrderedUsage(fed, i - 1, since),
            SpecOrdered(fed[i - 1], fed[i], since))

\* C34: the recent ring holds the records in the order they were appended,
\* whatever their timestamps, and the scans follow that order: a record not
\* stamped later than the one before it adds nothing to the usage totals
\* and gives no event, it becomes the predecessor of the next record, and
\* the pairs after it are counted and typed as any other.
C34_OutOfOrderTolerated ==
  LET ring == SpecRing(appended[HIST_RECENT_FILE]) IN
  /\ Reversed(storageReadOut(fs, HIST_RECENT_FILE, EV_REC, EV_REC)) = ring
  /\ (ret.op = "trend" /\ ret.val = 0 /\ trendCache.ok) =>
       /\ ret.scan.fed =
            SelectSeq(ring, LAMBDA rec : rec.ts <= sens.timestamp)
       /\ trendCache.used24_l # NaN =>
            trendCache.used24_l =
              Round10(SpecOrderedUsage(ret.scan.fed, Len(ret.scan.fed),
                                       SpecSince(sens.timestamp, 86400)))
  /\ ret.op = "events" =>
       /\ Len(ret.scan.pairs) = Max(Len(ring) - 1, 0)
       /\ \A i \in 1..Len(ret.scan.pairs) :
            /\ ret.scan.pairs[i].prev = ring[i]
            /\ ret.scan.pairs[i].rec = ring[i + 1]
            /\ ret.scan.pairs[i].type =
                 IF ring[i + 1].ts <= ring[i].ts THEN ""
                 ELSE SpecEventType(ring[i], ring[i + 1])

\* events detected after the clock was set back 10 min between two cycles:
\* the pair across the step gives no event, the pair after it is a leak
C34_Witness ==
  /\ ret.op = "events"
  /\ Len(ret.scan.pairs) = 2
  /\ ret.scan.pairs[1].rec.ts < ret.scan.pairs[1].prev.ts
  /\ ret.scan.pairs[1].type = ""
  /\ ret.scan.pairs[2].prev = ret.scan.pairs[1].rec
  /\ ret.scan.pairs[2].type = "leak"
  /\ Len(ret.val) = 1

\* a trend computed after the clock was set back and forth: the record
\* stamped earlier than its predecessor adds nothing, the pair after it is
\* counted
C34_WitnessTrend ==
  /\ ret.op = "trend"
  /\ ret.val = 0
  /\ Len(ret.scan.fed) = 3
  /\ ret.scan.fed[2].ts < ret.scan.fed[1].ts
  /\ ret.scan.fed[3].ts > ret.scan.fed[2].ts
  /\ trendCache.used24_l = QSub(ret.scan.fed[2].volume, ret.scan.fed[3].volume)
  /\ QLt(Q0, trendCache.used24_l)

\* ----------------------------------------------------- nested windows
\* C36: in every snapshot computed by a scan the usage totals that are set
\* are not negative, and the 24h window lies inside the 7d window: a 24h
\* total comes with a 7d total at least as large, and span24 <= span7d.
C36_WindowsNested ==
  (ret.op = "trend" /\ ret.val = 0 /\ trendCache.ok) =>
    /\ trendCache.used24_l # NaN => QLe(Q0, trendCache.used24_l)
    /\ trendCache.used7d_l # NaN => QLe(Q0, trendCache.used7d_l)
    /\ trendCache.used24_l # NaN =>
         /\ trendCache.used7d_l # NaN
         /\ QLe(trendCache.used24_l, trendCache.used7d_l)
    /\ trendCache.span24_s <= trendCache.span7d_s

\* ------------------------------------------------------ failed replace
\* C37: whenever storageReplaceRingFile returns false, dst holds exactly the
\* content it had before the call: it is neither missing nor partly written.
C37_FailedReplaceKeepsDst ==
  (pc = "replaced" /\ ~rp.ret) => fs[rp.path] = rp.dst0


\* ---- C39 ----
\* C39: sanitizeConfig is idempotent and establishes the calibration
\* invariants: after it ran, 0 < full_dist < empty_dist, 1 <= avg_samples <=
\* 10, 10 <= measure_sec <= 3600 and tg_alert_low < tg_alert_high, and
\* running it again on that configuration changes nothing and returns false
C39_SanitizeIdempotent ==
  ret.op = "sanitize" =>
    /\ QLt(Q0, cfg.full_dist_cm)
    /\ QLt(cfg.full_dist_cm, cfg.empty_dist_cm)
    /\ cfg.avg_samples >= 1 /\ cfg.avg_samples <= 10
    /\ cfg.measure_sec >= 10 /\ cfg.measure_sec <= 3600
    /\ QLt(cfg.tg_alert_low, cfg.tg_alert_high)
    /\ sanitizeConfig(cfg) = [c |-> cfg, changed |-> FALSE]


\* ---- C38 ----
\* the check of the last measurement ran on a valid reading with Telegram
\* enabled
AlertsRan == ret.op = "alerts" /\ ret.ran

C38_WitnessAgain ==
  /\ AlertsRan
  /\ "low" \in ret.val
  /\ ret.t0.lowSince = "reset"

\* an invalid reading below the threshold is met with the alert armed
C38_WitnessInvalid ==
  /\ ret.op = "alerts"
  /\ ~sens.valid
  /\ ret.t0.enabled /\ ~ret.t0.bootPhase
  /\ cfg.tg_alert_low_en
  /\ QLt(sens.level_pct, cfg.tg_alert_low)
  /\ ~ret.t0.alertLowSent


\* ---- C40 ----
\* C40: in station mode a pass of loop() fires the measurement timer exactly
\* when cfg.measure_sec * 1000 ms or more have really passed since the pass
\* that last fired it, and the hourly timer exactly when 3600000 ms or more
\* have, whether or not millis() wrapped past 2^32 in between
C40_TimersFireOnElapsed ==
  (ret.op = "loop" /\ ~tm.apMode) =>
    /\ "measure" \in tm.fired <=> tm.elapsedM >= cfg.measure_sec * 1000
    /\ "hourly" \in tm.fired <=> tm.elapsedH >= 3600000

\* the measurement timer fires across a wrap of millis(), exactly at its
\* interval
C40_Witness ==
  /\ ret.op = "loop" /\ ~tm.apMode
  /\ "measure" \in tm.fired
  /\ tm.wrapM
  /\ tm.elapsedM = cfg.measure_sec * 1000

\* after a wrap of millis() the hourly timer is a millisecond short of its
\* interval and does not fire; a pass later it fires
C40_WitnessHourlyShort ==
  /\ ret.op = "loop" /\ ~tm.apMode
  /\ tm.wrapH
  /\ tm.elapsedH = 3599999
  /\ "hourly" \notin tm.fired

C40_WitnessHourly ==
  /\ ret.op = "loop" /\ ~tm.apMode
  /\ tm.wrapH
  /\ tm.elapsedH = 3600000
  /\ "hourly" \in tm.fired

====
